---- MODULE Spec2Model ----
(***************************************************************************)
(* Model of the threaded-messaging entity and signal layer                 *)
(* (Django-signals_orm-0x04/messaging) and of the lazy pagination          *)
(* generator (python-generators-0x00/2-lazy_paginate.py).                  *)
(***************************************************************************)
EXTENDS Integers, Sequences, FiniteSets, TLC

\* ------------------------------------------------------------------ bounds
\* The users that exist at the start; three, so that a reply can come from a
\* user who is neither the sender nor the receiver of the parent.
Users == {"alice", "bob", "carol"}
\* The contents an edit can write, and the contents a message is created with.
Contents == {"v1", "v2"}
CreateContents == {"v1"}
\* Messages created, and content-changing saves made, in one behaviour.
MaxMessages == 2
MaxEdits == 2
\* Rows of user_data, page sizes, and next() calls made after the generator ended.
MaxRows == 4
MaxPageSize == 3
MaxExtraRequests == 1

\* Python's None, for a primary key, a foreign key or a timestamp.
None == 0

VARIABLES
  users,          \* rows of auth.User
  messages,       \* rows of Message, by primary key
  history,        \* rows of MessageHistory, in insertion order
  notifications,  \* rows of Notification, in insertion order
  nextId,         \* the next AutoField value of Message
  now,            \* timezone.now(), a logical clock
  contentLog,     \* per message, the stored content replaced by each content change
  lastOp,         \* the operation that produced this state
  table,          \* rows of user_data, in scan order
  page_size,      \* the argument of lazy_paginate
  pc,             \* where the generator stands: "created", "yielded" or "done"
                  \* ("idle" when there is none)
  offset,         \* the local variable offset of lazy_paginate
  pages,          \* the pages the consumer has received
  fetches,        \* the calls of paginate_users made so far, with what each returned
  requests,       \* the number of next() calls of the consumer
  failed,         \* whether some fetch has met a database error or a dead connection
  sweep,          \* delete_user: the cleanup sweep that failed, and the tables before it
  cacheSys,       \* 4-cache_query.py: query_cache, the table it reads, the calls made
  batch,          \* 1-batch_processing.py: the cursor, the batches and the result
  conc,           \* 3-concurrent.py: the two coroutines, their workers and the join
  retry,          \* 3-retry_on_failure.py: one call of a wrapped function
  txn,            \* 2-transactional.py: calls of a function under both decorators
  rate,           \* middleware.py: OffensiveLanguageMiddleware and its clock
  chat,           \* messaging_app: users, conversations and messages of the chats API
  view,           \* reply_to_message: the last request, its response, the tables before
  race,           \* in-memory Message instances and the saves in progress on them
  removed         \* the last message deletion: the message and the tables before it

msgVars == <<users, messages, history, notifications, nextId, now, contentLog, lastOp>>
pagVars == <<table, page_size, pc, offset, pages, fetches, requests, failed>>
extVars == <<sweep, cacheSys, batch, conc, retry, txn, rate>>
appVars == <<chat, view, race, removed>>
vars == <<msgVars, pagVars, extVars, appVars>>

\* The value of a variable whose component is not running.
Idle == [phase |-> "idle"]

\* ---------------------------------------------------------- Message model

\* Message(sender=.., receiver=.., content=.., parent_message=..): the field
\* defaults of the model for an instance that has not been saved.
NewMessage(s, r, c, p) ==
  [pk |-> None, sender |-> s, receiver |-> r, content |-> c,
   edited |-> FALSE, edited_at |-> None,
   parent_message |-> p, thread_level |-> 0, reply_count |-> 0]

\* self.parent_message.replies.count()
RepliesCount(msgs, p) == Cardinality({id \in DOMAIN msgs : msgs[id].parent_message = p})

\* Mutant: the reply is given its parent's level instead of the level below it.
SetThreadFields_same_level(inst) ==
  IF inst.parent_message # None
    THEN LET parent == messages[inst.parent_message]
         IN [inst EXCEPT !.thread_level = parent.thread_level,
                         !.receiver = IF parent.sender = inst.sender
                                        THEN parent.receiver
                                        ELSE parent.sender]
    ELSE inst

\* Mutant: the receiver the caller passed is kept.
SetThreadFields_keep_receiver(inst) ==
  IF inst.parent_message # None
    THEN [inst EXCEPT !.thread_level = messages[inst.parent_message].thread_level + 1]
    ELSE inst

\* Message.save, "Set thread level based on parent".
SetThreadFields(inst) ==
  IF inst.parent_message # None
    THEN LET parent == messages[inst.parent_message]
         IN [inst EXCEPT !.thread_level = parent.thread_level + 1,
                         !.receiver = IF parent.sender = inst.sender
                                        THEN parent.receiver
                                        ELSE parent.sender]
    ELSE inst

\* Mutant: every save of a stored message counts as an edit.
TrackEdit_any_save(inst) ==
  IF inst.pk # None
    THEN [inst EXCEPT !.edited = TRUE, !.edited_at = now + 1]
    ELSE inst

\* Message.save, "Handle edit tracking".
TrackEdit(inst) ==
  IF inst.pk # None
    THEN LET original == messages[inst.pk]
         IN IF original.content # inst.content
              THEN [inst EXCEPT !.edited = TRUE, !.edited_at = now + 1]
              ELSE inst
    ELSE inst

\* MessageHistory.objects.filter(message=original).order_by('-version').first()
HistoryOf(hist, id) == SelectSeq(hist, LAMBDA h : h.message = id)

LastVersion(hist, id) ==
  LET vs == {hist[i].version : i \in {j \in 1..Len(hist) : hist[j].message = id}}
  IN IF vs = {} THEN None ELSE CHOOSE v \in vs : \A w \in vs : w <= v

\* Mutant: the history row takes the new content instead of the stored one.
log_message_edit_new_content(inst) ==
  IF inst.pk # None /\ inst.pk \in DOMAIN messages
    THEN LET original == messages[inst.pk]
             last_version == LastVersion(history, original.pk)
             next_version == IF last_version # None THEN last_version + 1 ELSE 1
         IN IF original.content # inst.content
              THEN Append(history, [message |-> original.pk,
                                    old_content |-> inst.content,
                                    edited_by |-> inst.sender,
                                    version |-> next_version])
              ELSE history
    ELSE history

\* pre_save receiver: the history table after the signal has run.
log_message_edit(inst) ==
  IF inst.pk # None /\ inst.pk \in DOMAIN messages
    THEN LET original == messages[inst.pk]
             last_version == LastVersion(history, original.pk)
             next_version == IF last_version # None THEN last_version + 1 ELSE 1
         IN IF original.content # inst.content
              THEN Append(history, [message |-> original.pk,
                                    old_content |-> original.content,
                                    edited_by |-> inst.sender,
                                    version |-> next_version])
              ELSE history
    ELSE history

\* Mutant: the sender is notified of a message to itself.
create_message_notification_to_self(inst, created) ==
  IF created
    THEN Append(notifications, [user |-> inst.receiver, message |-> inst.pk])
    ELSE notifications

\* Mutant: the receiver is notified on every save, not only on creation.
create_message_notification_every_save(inst, created) ==
  IF inst.sender # inst.receiver
    THEN Append(notifications, [user |-> inst.receiver, message |-> inst.pk])
    ELSE notifications

\* post_save receiver: the notification table after the signal has run.
create_message_notification(inst, created) ==
  IF created /\ inst.sender # inst.receiver
    THEN Append(notifications, [user |-> inst.receiver, message |-> inst.pk])
    ELSE notifications

\* Message.save, "Update reply count for parent", evaluated on the instance
\* as it is after super().save(), which has set its pk.
UpdateReplyCount(inst, msgs) ==
  IF inst.parent_message # None /\ inst.pk = None
    THEN [msgs EXCEPT ![inst.parent_message].reply_count =
                         RepliesCount(msgs, inst.parent_message)]
    ELSE msgs

\* super().save(): the row written, with the pk the database assigns on insert.
WriteRow(inst) ==
  LET saved == [inst EXCEPT !.pk = IF inst.pk = None THEN nextId ELSE inst.pk]
  IN [id \in DOMAIN messages \cup {saved.pk} |->
        IF id = saved.pk THEN saved ELSE messages[id]]

\* Message.save as a whole, signals included.
save(inst) ==
  LET threaded == SetThreadFields(inst)
      tracked == TrackEdit(threaded)
      created == tracked.pk = None
      saved == [tracked EXCEPT !.pk = IF created THEN nextId ELSE tracked.pk]
  IN /\ history' = log_message_edit(tracked)
     /\ messages' = UpdateReplyCount(saved, WriteRow(tracked))
     /\ notifications' = create_message_notification(saved, created)
     /\ nextId' = IF created THEN nextId + 1 ELSE nextId
     /\ now' = IF tracked.edited_at # threaded.edited_at THEN now + 1 ELSE now

\* ------------------------------------------------------------- deletion

\* The three tables that hold a reference to Message or User rows.
DB == [messages |-> messages, history |-> history, notifications |-> notifications]

\* Mutant: the cascade stops at the direct replies.
Cascade_children(msgs, ids) ==
  ids \cup {id \in DOMAIN msgs : msgs[id].parent_message \in ids}

\* on_delete=CASCADE of Message.parent_message: ids and all their descendants.
RECURSIVE Cascade(_, _)
Cascade(msgs, ids) ==
  LET more == {id \in DOMAIN msgs : msgs[id].parent_message \in ids} \ ids
  IN IF more = {} THEN ids ELSE Cascade(msgs, ids \cup more)

\* post_delete receiver of Message, run for each of the deleted messages.
RECURSIVE cleanup_message_orphans(_, _)
cleanup_message_orphans(db, ids) ==
  IF ids = {} THEN db
  ELSE LET id == CHOOSE i \in ids : TRUE
           swept == [db EXCEPT
                       !.notifications = SelectSeq(@, LAMBDA n : n.message # id),
                       !.history = SelectSeq(@, LAMBDA h : h.message # id)]
       IN cleanup_message_orphans(swept, ids \ {id})

\* Mutant: only the message rows go; their history rows and notifications stay.
DeleteMessages_rows_only(db, ids) ==
  LET gone == Cascade(db.messages, ids)
  IN [db EXCEPT !.messages = [id \in DOMAIN db.messages \ gone |-> db.messages[id]]]

\* QuerySet.delete() of the messages ids: the collector follows the CASCADE
\* keys MessageHistory.message, Notification.message and parent_message.
DeleteMessages(db, ids) ==
  LET gone == Cascade(db.messages, ids)
      deleted == [messages |-> [id \in DOMAIN db.messages \ gone |-> db.messages[id]],
                  history |-> SelectSeq(db.history, LAMBDA h : h.message \notin gone),
                  notifications |-> SelectSeq(db.notifications,
                                              LAMBDA n : n.message \notin gone)]
  IN cleanup_message_orphans(deleted, gone)

\* user.delete(): the collector follows the CASCADE keys Message.sender,
\* Message.receiver, Notification.user and MessageHistory.edited_by.
DeleteUserCascade(db, u) ==
  LET swept == DeleteMessages(db, {id \in DOMAIN db.messages :
                                    db.messages[id].sender = u \/ db.messages[id].receiver = u})
  IN [swept EXCEPT !.notifications = SelectSeq(@, LAMBDA n : n.user # u),
                   !.history = SelectSeq(@, LAMBDA h : h.edited_by # u)]

\* post_delete receiver of User: the four deletes of the sweep, in order.
cleanup_user_data(db, u) ==
  LET sent == DeleteMessages(db, {id \in DOMAIN db.messages : db.messages[id].sender = u})
      received == DeleteMessages(sent, {id \in DOMAIN sent.messages :
                                          sent.messages[id].receiver = u})
      notified == [received EXCEPT !.notifications = SelectSeq(@, LAMBDA n : n.user # u)]
  IN [notified EXCEPT !.history = SelectSeq(@, LAMBDA h : h.edited_by # u)]

\* ------------------------------------------------------------ operations

\* The database after migration and user creation: the three users, no
\* message.  No generator exists: its variables are idle.
Init ==
  /\ users = Users
  /\ messages = <<>>
  /\ history = <<>>
  /\ notifications = <<>>
  /\ nextId = 1
  /\ now = 0
  /\ contentLog = <<>>
  /\ lastOp = "init"
  /\ table = <<>>
  /\ page_size = 1
  /\ pc = "idle"
  /\ offset = 0
  /\ pages = <<>>
  /\ fetches = <<>>
  /\ requests = 0
  /\ failed = FALSE
  /\ sweep = Idle
  /\ cacheSys = Idle
  /\ batch = Idle
  /\ conc = Idle
  /\ retry = Idle
  /\ txn = Idle
  /\ rate = Idle
  /\ chat = Idle
  /\ view = Idle
  /\ race = Idle
  /\ removed = Idle

\* Message.objects.create(sender=s, receiver=r, content=c)
CreateMessage(s, r, c) ==
  /\ s \in users /\ r \in users
  /\ nextId <= MaxMessages
  /\ save(NewMessage(s, r, c, None))
  /\ contentLog' = [id \in DOMAIN contentLog \cup {nextId} |->
                      IF id = nextId THEN <<>> ELSE contentLog[id]]
  /\ lastOp' = "create"
  /\ UNCHANGED users
  /\ UNCHANGED <<pagVars, extVars, appVars>>

\* Message.objects.create(sender=s, receiver=r, content=c, parent_message=p)
CreateReply(s, r, c, p) ==
  /\ s \in users /\ r \in users
  /\ p \in DOMAIN messages
  /\ nextId <= MaxMessages
  /\ save(NewMessage(s, r, c, p))
  /\ contentLog' = [id \in DOMAIN contentLog \cup {nextId} |->
                      IF id = nextId THEN <<>> ELSE contentLog[id]]
  /\ lastOp' = "reply"
  /\ UNCHANGED users
  /\ UNCHANGED <<pagVars, extVars, appVars>>

\* m = Message.objects.get(pk=id); m.content = c; m.save(), c a new content
EditMessage(id, c) ==
  /\ id \in DOMAIN messages
  /\ c # messages[id].content
  /\ now < MaxEdits
  /\ save([messages[id] EXCEPT !.content = c])
  /\ contentLog' = [contentLog EXCEPT ![id] = Append(@, messages[id].content)]
  /\ lastOp' = "edit"
  /\ UNCHANGED users
  /\ UNCHANGED <<pagVars, extVars, appVars>>

\* m = Message.objects.get(pk=id); m.save(), the content left as stored
ResaveMessage(id) ==
  /\ id \in DOMAIN messages
  /\ save(messages[id])
  /\ lastOp' = "resave"
  /\ UNCHANGED <<users, contentLog>>
  /\ UNCHANGED <<pagVars, extVars, appVars>>

\* delete_user: user.delete() inside transaction.atomic(), then the signals.
DeleteUser(u) ==
  /\ u \in users
  /\ LET db == cleanup_user_data(DeleteUserCascade(DB, u), u)
     IN /\ messages' = db.messages
        /\ history' = db.history
        /\ notifications' = db.notifications
        /\ contentLog' = [id \in DOMAIN db.messages |-> contentLog[id]]
  /\ users' = users \ {u}
  /\ lastOp' = "delete_user"
  /\ UNCHANGED <<nextId, now>>
  /\ UNCHANGED <<pagVars, extVars, appVars>>

MsgNext ==
  \/ \E s \in Users, r \in Users, c \in CreateContents : CreateMessage(s, r, c)
  \/ \E s \in Users, r \in Users, c \in CreateContents, p \in 1..MaxMessages : CreateReply(s, r, c, p)
  \/ \E id \in 1..MaxMessages, c \in Contents : EditMessage(id, c)
  \/ \E id \in 1..MaxMessages : ResaveMessage(id)
  \/ \E u \in Users : DeleteUser(u)

Spec == Init /\ [][MsgNext]_vars

\* ----------------------------------------------------- claims: messaging

\* The history rows of message id that carry version v.
RowsOfVersion(id, v) ==
  {i \in 1..Len(history) : history[i].message = id /\ history[i].version = v}

\* The notifications of message id.
NotificationsOf(notifs, id) == SelectSeq(notifs, LAMBDA n : n.message = id)

Replies == {id \in DOMAIN messages : messages[id].parent_message # None}

\* C1: after n content-changing saves of a message, applied one after
\* another, the message has exactly n history rows, their versions are
\* exactly 1..n, and the row with version i holds the content the message had
\* just before the i-th change.
C1_HistoryRecordsEachChange ==
  \A id \in DOMAIN messages :
    /\ Len(HistoryOf(history, id)) = Len(contentLog[id])
    /\ \A i \in 1..Len(contentLog[id]) :
         /\ Cardinality(RowsOfVersion(id, i)) = 1
         /\ \A r \in RowsOfVersion(id, i) : history[r].old_content = contentLog[id][i]

\* C1 witness: a message changed twice, v1 -> v2 -> v1.
C1_Witness ==
  \E id \in DOMAIN messages : contentLog[id] = <<"v1", "v2">>

\* C2: saving a stored message whose content equals the stored content adds
\* no history row and sets neither edited nor edited_at; a message whose
\* content was never changed has edited = false, whatever was saved since.
C2_UnchangedSaveLeavesNoTrace ==
  [][/\ lastOp' = "resave" =>
          /\ history' = history
          /\ \A id \in DOMAIN messages :
               /\ messages'[id].edited = messages[id].edited
               /\ messages'[id].edited_at = messages[id].edited_at
     /\ \A id \in DOMAIN messages' :
          contentLog'[id] = <<>> => ~messages'[id].edited]_vars

\* C2 witness: an unchanged save has just run while one message has never
\* been edited and another has.
C2_Witness ==
  /\ lastOp = "resave"
  /\ \E a, b \in DOMAIN messages : ~messages[a].edited /\ messages[b].edited

\* C3: each message that has a parent has its parent's thread_level + 1, and
\* each message without a parent has thread_level 0.
C3_ThreadLevel ==
  \A id \in DOMAIN messages :
    IF messages[id].parent_message = None
      THEN messages[id].thread_level = 0
      ELSE /\ messages[id].parent_message \in DOMAIN messages
           /\ messages[id].thread_level =
                messages[messages[id].parent_message].thread_level + 1

\* C3 witness: a reply that has been edited after its creation.
C3_Witness ==
  \E id \in Replies : messages[id].edited /\ messages[id].thread_level = 1

\* C4: after a reply is created under a parent p, the stored reply_count of
\* p equals the number of messages whose parent_message is p.
C4_ReplyCountAfterReply ==
  lastOp = "reply" =>
    LET p == messages[nextId - 1].parent_message
    IN messages[p].reply_count = RepliesCount(messages, p)

\* C5: creating a message whose sender differs from its (stored) receiver
\* creates exactly one notification, for the receiver and linked to the
\* message; creating one whose sender is its receiver creates none.
C5_OneNotificationPerCreation ==
  [][lastOp' \in {"create", "reply"} =>
       LET m == messages'[nextId]
       IN IF m.sender # m.receiver
            THEN notifications' =
                   Append(notifications, [user |-> m.receiver, message |-> nextId])
            ELSE notifications' = notifications]_vars

\* C5 witness: a message to oneself that has no notification, beside a
\* message to another user that has one.
C5_Witness ==
  \E a, b \in DOMAIN messages :
    /\ messages[a].sender = messages[a].receiver
    /\ messages[b].sender # messages[b].receiver
    /\ Len(NotificationsOf(notifications, a)) = 0
    /\ Len(NotificationsOf(notifications, b)) = 1

\* C6: a save of an existing message (a content edit or an unchanged save)
\* leaves the notifications unchanged; a creation leaves the notifications
\* of the other messages unchanged; so each message has at most one
\* notification and the notifications are as many as the messages whose
\* sender is not their receiver.
C6_NotificationsOnlyOnCreation ==
  [][/\ lastOp' \in {"edit", "resave"} => notifications' = notifications
     /\ lastOp' \in {"create", "reply"} =>
          \A id \in DOMAIN messages :
            NotificationsOf(notifications', id) = NotificationsOf(notifications, id)
     /\ \A id \in DOMAIN messages' :
          Len(NotificationsOf(notifications', id)) =
            IF messages'[id].sender # messages'[id].receiver THEN 1 ELSE 0
     /\ Len(notifications') =
          Cardinality({id \in DOMAIN messages' :
                         messages'[id].sender # messages'[id].receiver})]_vars

\* C6 witness: a parent and its reply, each with its notification, after an edit.
C6_Witness ==
  /\ lastOp = "edit"
  /\ Replies # {}
  /\ Len(notifications) = 2

\* C7: once a user u is deleted there is no message with sender or receiver
\* u, no notification for u or for a message that is gone with u, and no
\* history row edited by u.
C7_DeletedUserLeavesNothing ==
  \A u \in Users \ users :
    /\ \A id \in DOMAIN messages :
         messages[id].sender # u /\ messages[id].receiver # u
    /\ \A i \in 1..Len(notifications) :
         notifications[i].user # u /\ notifications[i].message \in DOMAIN messages
    /\ \A i \in 1..Len(history) :
         history[i].edited_by # u /\ history[i].message \in DOMAIN messages

\* C7 witness: a user is deleted after two messages and an edit, and takes
\* at least one of the messages along while a message of others stays.
C7_Witness ==
  /\ lastOp = "delete_user"
  /\ nextId = 3
  /\ now >= 1
  /\ Cardinality(DOMAIN messages) = 1

\* C10 as claimed: the stored receiver of a message saved with a parent is a
\* member of {parent.sender, parent.receiver} and is not the message's sender.
C10_ReceiverIsTheOtherParticipant ==
  \A id \in Replies :
    LET m == messages[id]
        parent == messages[m.parent_message]
    IN m.receiver \in {parent.sender, parent.receiver} /\ m.receiver # m.sender

\* C10 amended: the stored receiver is parent.receiver when the message's
\* sender is the parent's sender and parent.sender otherwise; it is a member
\* of {parent.sender, parent.receiver} other than the sender unless the
\* parent's sender and receiver are both the message's sender, and then it
\* is the sender.
C10_ReceiverDerivedFromParent ==
  \A id \in Replies :
    LET m == messages[id]
        parent == messages[m.parent_message]
    IN /\ m.receiver \in {parent.sender, parent.receiver}
       /\ m.sender = parent.sender => m.receiver = parent.receiver
       /\ m.sender # parent.sender => m.receiver = parent.sender
       /\ (m.receiver = m.sender) <=>
            (parent.sender = m.sender /\ parent.receiver = m.sender)

\* C10 witness: a reply whose sender is neither participant of the parent.
C10_Witness ==
  \E id \in Replies :
    LET m == messages[id]
        parent == messages[m.parent_message]
    IN /\ m.sender \notin {parent.sender, parent.receiver}
       /\ parent.sender # parent.receiver
       /\ m.receiver = parent.sender

\* ------------------------------------------------------- lazy pagination

Min(a, b) == IF a < b THEN a ELSE b

\* Mutant: the page holds one row more than the limit.
LimitOffset_one_more(rows, limit, off) ==
  IF off >= Len(rows) THEN <<>> ELSE SubSeq(rows, off + 1, Min(off + limit + 1, Len(rows)))

\* SELECT * FROM user_data LIMIT limit OFFSET off
LimitOffset(rows, limit, off) ==
  IF off >= Len(rows) THEN <<>> ELSE SubSeq(rows, off + 1, Min(off + limit, Len(rows)))

\* Mutant: a failed fetch still hands back the rows of the page.
paginate_users_error_rows(size, off, outcome) ==
  IF outcome = "down"
    THEN [kind |-> "none", rows |-> <<>>]
    ELSE [kind |-> "rows", rows |-> LimitOffset(table, size, off)]

\* paginate_users(page_size, offset): what the call returns when the database
\* answers ("ok"), when it raises Error ("error": the except branch returns [])
\* and when connection.is_connected() is false ("down": the function falls
\* off its end and returns None).
paginate_users(size, off, outcome) ==
  CASE outcome = "ok" -> [kind |-> "rows", rows |-> LimitOffset(table, size, off)]
    [] outcome = "error" -> [kind |-> "rows", rows |-> <<>>]
    [] outcome = "down" -> [kind |-> "none", rows |-> <<>>]

\* Mutant: "if page is None", which lets an empty list through.
NoMoreData_none_only(page) == page.kind = "none"

\* "if not page": None and the empty list are both false.
NoMoreData(page) == page.kind = "none" \/ page.rows = <<>>

\* The offset of the fetch a next() call makes: 0 at the generator's start,
\* offset += page_size when it resumes after a yield.
NextOffset == IF pc = "created" THEN 0 ELSE offset + page_size

Outcomes == {"ok", "error", "down"}

\* A table of 0..MaxRows rows, each row standing for its primary key, and a
\* generator object just created by lazy_paginate(page_size); the messaging
\* tables are empty and stay so.
PagInit ==
  /\ users = Users
  /\ messages = <<>>
  /\ history = <<>>
  /\ notifications = <<>>
  /\ nextId = 1
  /\ now = 0
  /\ contentLog = <<>>
  /\ lastOp = "init"
  /\ \E n \in 0..MaxRows : table = [i \in 1..n |-> i]
  /\ page_size \in 1..MaxPageSize
  /\ pc = "created"
  /\ offset = 0
  /\ pages = <<>>
  /\ fetches = <<>>
  /\ requests = 0
  /\ failed = FALSE
  /\ sweep = Idle
  /\ cacheSys = Idle
  /\ batch = Idle
  /\ conc = Idle
  /\ retry = Idle
  /\ txn = Idle
  /\ rate = Idle
  /\ chat = Idle
  /\ view = Idle
  /\ race = Idle
  /\ removed = Idle

\* next(gen) on a generator that has not ended: the body runs to its next
\* yield, or to the break.
LazyNext(outcome) ==
  /\ pc \in {"created", "yielded"}
  /\ LET off == NextOffset
         page == paginate_users(page_size, off, outcome)
     IN /\ offset' = off
        /\ fetches' = Append(fetches, [offset |-> off, page |-> page])
        /\ IF NoMoreData(page)
             THEN pc' = "done" /\ pages' = pages
             ELSE pc' = "yielded" /\ pages' = Append(pages, page.rows)
  /\ requests' = requests + 1
  /\ failed' = (failed \/ outcome # "ok")
  /\ UNCHANGED <<table, page_size>>
  /\ UNCHANGED <<msgVars, extVars, appVars>>

\* next(gen) on a generator that has ended: StopIteration, the body does not run.
NextExhausted ==
  /\ pc = "done"
  /\ requests < Len(fetches) + MaxExtraRequests
  /\ requests' = requests + 1
  /\ UNCHANGED <<table, page_size, pc, offset, pages, fetches, failed>>
  /\ UNCHANGED <<msgVars, extVars, appVars>>

PagNext ==
  \/ \E outcome \in Outcomes : LazyNext(outcome)
  \/ NextExhausted

PaginateSpec == PagInit /\ [][PagNext]_vars

\* ----------------------------------------------- claims: lazy pagination

RECURSIVE Concat(_)
Concat(ps) == IF ps = <<>> THEN <<>> ELSE Head(ps) \o Concat(Tail(ps))

CeilDiv(n, k) == (n + k - 1) \div k

\* C8: over a table of N rows and a page size k >= 1, with every fetch
\* answered by the database, lazy_paginate(k) yields ceil(N/k) pages in offset
\* order, each of size k except possibly the last, whose concatenation is
\* the table; it ends at the first fetch that returns an empty page.  The
\* pages received so far are always a prefix of that sequence.
C8_PagesPartitionTheTable ==
  /\ \A i \in 1..Len(pages) : Len(pages[i]) >= 1 /\ Len(pages[i]) <= page_size
  /\ \A i \in 1..(Len(pages) - 1) : Len(pages[i]) = page_size
  /\ Len(Concat(pages)) <= Len(table)
  /\ Concat(pages) = SubSeq(table, 1, Len(Concat(pages)))
  /\ (pc = "done" /\ ~failed) =>
       /\ Len(pages) = CeilDiv(Len(table), page_size)
       /\ Concat(pages) = table
       /\ fetches[Len(fetches)].page.rows = <<>>
       /\ \A j \in 1..(Len(fetches) - 1) : fetches[j].page.rows # <<>>

\* C8 witness: 4 rows in pages of 3 have been read to the end: a full page
\* and a last page of one row.
C8_Witness ==
  /\ pc = "done" /\ ~failed
  /\ Len(table) = 4 /\ page_size = 3
  /\ pages = << <<1, 2, 3>>, <<4>> >>

\* C9: a fetch is issued only in answer to a request of the consumer: none
\* before the first request; when the consumer has just received its j-th
\* page exactly j fetches have been issued, at offsets 0, k, ..., (j-1)k in
\* that order; the fetch that returns no rows is the last one, whatever is
\* requested afterwards.
C9_FetchOnlyOnRequest ==
  /\ requests = 0 => fetches = <<>>
  /\ Len(fetches) <= requests
  /\ \A j \in 1..Len(fetches) : fetches[j].offset = (j - 1) * page_size
  /\ pc = "created" => fetches = <<>>
  /\ pc = "yielded" => Len(fetches) = Len(pages) /\ requests = Len(fetches)
  /\ pc = "done" => Len(fetches) = Len(pages) + 1
  /\ \A j \in 1..Len(fetches) :
       fetches[j].page.rows = <<>> => (j = Len(fetches) /\ pc = "done")

\* C9 witness: two pages received, the third fetch came back empty, and a
\* further request has been made since.
C9_Witness ==
  /\ pc = "done"
  /\ Len(pages) = 2
  /\ Len(fetches) = 3
  /\ requests = 4

\* ------------------------------------------------------------- threads

\* Bounds of the thread exploration: two users, chains of up to five messages.
ThreadUsers == {"alice", "bob"}
MaxThreadMessages == 5

\* The parent_message of message id, None when it has none (the join that
\* parent_message__parent_message follows: NULL joins to NULL).
ParentOf(msgs, id) == IF id = None THEN None ELSE msgs[id].parent_message

\* Mutant: one step up instead of the walk to the top.
get_thread_root_one_step(msgs, id) ==
  IF msgs[id].parent_message # None THEN msgs[id].parent_message ELSE id

\* Message.get_thread_root
RECURSIVE get_thread_root(_, _)
get_thread_root(msgs, id) ==
  IF msgs[id].parent_message # None
    THEN get_thread_root(msgs, msgs[id].parent_message)
    ELSE id

\* The primary keys handed out so far, in timestamp order (a message's
\* timestamp is its creation time).
ByTimestamp == [i \in 1..(nextId - 1) |-> i]

\* Mutant: the filter stops at the grandchildren.
get_all_replies_two_levels(msgs, id) ==
  SelectSeq(ByTimestamp, LAMBDA m :
    /\ m \in DOMAIN msgs
    /\ \/ ParentOf(msgs, m) = id
       \/ ParentOf(msgs, ParentOf(msgs, m)) = id)

\* Message.get_all_replies: the three Q objects, ordered by timestamp.
get_all_replies(msgs, id) ==
  SelectSeq(ByTimestamp, LAMBDA m :
    /\ m \in DOMAIN msgs
    /\ \/ ParentOf(msgs, m) = id
       \/ ParentOf(msgs, ParentOf(msgs, m)) = id
       \/ ParentOf(msgs, ParentOf(msgs, ParentOf(msgs, m))) = id)

\* Message.objects.create(sender=s, receiver=r, content=c), in a thread exploration
ThreadCreate(s, r, c) ==
  /\ s \in users /\ r \in users
  /\ nextId <= MaxThreadMessages
  /\ save(NewMessage(s, r, c, None))
  /\ contentLog' = [id \in DOMAIN contentLog \cup {nextId} |->
                      IF id = nextId THEN <<>> ELSE contentLog[id]]
  /\ lastOp' = "create"
  /\ UNCHANGED users
  /\ UNCHANGED <<pagVars, extVars, appVars>>

\* Message.objects.create(sender=s, receiver=r, content=c, parent_message=p),
\* in a thread exploration
ThreadReply(s, r, c, p) ==
  /\ s \in users /\ r \in users
  /\ p \in DOMAIN messages
  /\ nextId <= MaxThreadMessages
  /\ save(NewMessage(s, r, c, p))
  /\ contentLog' = [id \in DOMAIN contentLog \cup {nextId} |->
                      IF id = nextId THEN <<>> ELSE contentLog[id]]
  /\ lastOp' = "reply"
  /\ UNCHANGED users
  /\ UNCHANGED <<pagVars, extVars, appVars>>

ThreadNext ==
  \/ \E s \in ThreadUsers, r \in ThreadUsers, c \in CreateContents : ThreadCreate(s, r, c)
  \/ \E s \in ThreadUsers, c \in CreateContents, p \in 1..MaxThreadMessages :
       ThreadReply(s, s, c, p)

ThreadSpec == Init /\ [][ThreadNext]_vars

\* ------------------------------------------------------- claims: threads

\* The messages on the parent chain of id, id included.
RECURSIVE ChainOf(_)
ChainOf(id) ==
  IF messages[id].parent_message = None
    THEN {id}
    ELSE {id} \cup ChainOf(messages[id].parent_message)

\* The children of the messages in ids.
ChildrenOf(ids) == {m \in DOMAIN messages : messages[m].parent_message \in ids}

\* The descendants of id at relative depth 1, 2 or 3.
WithinThreeLevels(id) ==
  LET l1 == ChildrenOf({id})
      l2 == ChildrenOf(l1)
      l3 == ChildrenOf(l2)
  IN l1 \cup l2 \cup l3

SeqToSet(q) == {q[i] : i \in 1..Len(q)}

\* C11: for every message of a reply chain of any depth, get_thread_root
\* returns the one message of its parent chain that has no parent (the
\* message itself when it has none), and that message has thread_level 0.
C11_ThreadRootIsTheParentlessAncestor ==
  \A id \in DOMAIN messages :
    LET root == get_thread_root(messages, id)
    IN /\ root \in ChainOf(id)
       /\ {m \in ChainOf(id) : messages[m].parent_message = None} = {root}
       /\ messages[root].thread_level = 0
       /\ messages[id].parent_message = None => root = id

\* C11 witness: a reply to a reply to a reply, whose root is three levels up.
C11_Witness ==
  \E id \in DOMAIN messages :
    /\ messages[id].thread_level = 3
    /\ get_thread_root(messages, id) \notin {id, messages[id].parent_message}
    /\ Cardinality(ChainOf(id)) = 4

SweepStep(db, u, k) ==
  CASE k = 1 -> DeleteMessages(db, {id \in DOMAIN db.messages : db.messages[id].sender = u})
    [] k = 2 -> DeleteMessages(db, {id \in DOMAIN db.messages : db.messages[id].receiver = u})
    [] k = 3 -> [db EXCEPT !.notifications = SelectSeq(@, LAMBDA n : n.user # u)]
    [] k = 4 -> [db EXCEPT !.history = SelectSeq(@, LAMBDA h : h.edited_by # u)]

\* The tables after the first k deletes of the sweep.
RECURSIVE SweepUpTo(_, _, _)
SweepUpTo(db, u, k) ==
  IF k = 0 THEN db ELSE SweepStep(SweepUpTo(db, u, k - 1), u, k)

SweepSteps == 1..4

\* What transaction.atomic() does on leaving the block after the sweep
\* swallowed its exception: it commits, unless the failing statement marked
\* the connection for rollback (an error raised inside the delete phase of
\* the ORM, or a backend that aborts the transaction on a statement error).
AtomicOutcomes == {"committed", "rolled_back"}

\* delete_user when the k-th delete of the sweep raises: user.delete() has
\* already removed the user's rows through the CASCADE keys; the exception
\* is caught and logged inside cleanup_user_data and never reaches
\* transaction.atomic() as an exception.
DeleteUserSweepFails(u, k, outcome) ==
  /\ sweep.phase = "idle"
  /\ u \in users
  /\ LET db == IF outcome = "committed"
               THEN SweepUpTo(DeleteUserCascade(DB, u), u, k - 1)
               ELSE DB
     IN /\ messages' = db.messages
        /\ history' = db.history
        /\ notifications' = db.notifications
        /\ contentLog' = [id \in DOMAIN db.messages |-> contentLog[id]]
  /\ users' = IF outcome = "committed" THEN users \ {u} ELSE users
  /\ sweep' = [phase |-> "failed", user |-> u, step |-> k, outcome |-> outcome,
               users |-> users, db |-> DB]
  /\ lastOp' = "delete_user_sweep_failed"
  /\ UNCHANGED <<nextId, now>>
  /\ UNCHANGED <<appVars, pagVars, cacheSys, batch, conc, retry, txn, rate>>

\* The run is followed up to the first deletion whose sweep fails.
DeleteNext ==
  \/ sweep.phase = "idle" /\ MsgNext
  \/ \E u \in Users, k \in SweepSteps, outcome \in AtomicOutcomes :
        DeleteUserSweepFails(u, k, outcome)

DeleteSpec == Init /\ [][DeleteNext]_vars

\* C13: when a step of the cleanup sweep fails for a user who has messages,
\* the user and all the rows of the three tables are still there afterwards:
\* the deletion and its sweep take effect together or not at all.
C13_FailedSweepRollsBack ==
  (lastOp = "delete_user_sweep_failed" /\
   \E id \in DOMAIN sweep.db.messages :
      sweep.user \in {sweep.db.messages[id].sender, sweep.db.messages[id].receiver})
    => /\ sweep.user \in users
       /\ DB = sweep.db

\* ------------------------------------------------ cache_query (decorators)

Queries == {"", "SELECT * FROM users"}
PassModes == {"keyword", "positional", "absent"}
CallOutcomes == {"returned", "raised"}
MaxCacheCalls == 3
MaxDataVersion == 2

\* The query the wrapper finds: kwargs['query'] if that keyword is given,
\* else args[1] if there is a second positional argument, else None. <<>>
\* stands for None (the call carries its query where the wrapper does not
\* look), <<q>> for the string q.
ExtractQuery(mode, q) ==
  IF mode \in {"keyword", "positional"} THEN <<q>> ELSE <<>>

CacheHit_never(cache, key) == FALSE

\* 'query is None' is tested first, then 'query in query_cache'.
CacheHit(cache, key) == key # <<>> /\ key[1] \in DOMAIN cache

\* query_cache[query] = result
CacheStore(cache, q, result) ==
  [x \in DOMAIN cache \cup {q} |-> IF x = q THEN result ELSE cache[x]]

\* What the wrapped function reads: the rows the query selects from the
\* table as it is at this moment.
Execute(q, data) == [query |-> q, version |-> data]

CacheInit ==
  /\ users = Users
  /\ messages = <<>>
  /\ history = <<>>
  /\ notifications = <<>>
  /\ nextId = 1
  /\ now = 0
  /\ contentLog = <<>>
  /\ lastOp = "init"
  /\ table = <<>>
  /\ page_size = 1
  /\ pc = "idle"
  /\ offset = 0
  /\ pages = <<>>
  /\ fetches = <<>>
  /\ requests = 0
  /\ failed = FALSE
  /\ sweep = Idle
  /\ cacheSys = [phase |-> "run", query_cache |-> <<>>, data |-> 0, calls |-> 0,
                 last |-> [kind |-> "none"]]
  /\ batch = Idle
  /\ conc = Idle
  /\ retry = Idle
  /\ txn = Idle
  /\ rate = Idle
  /\ chat = Idle
  /\ view = Idle
  /\ race = Idle
  /\ removed = Idle

\* One call of the wrapped function with query string q; outcome is what the function does
\* if it is executed.
CachedCall(q, mode, outcome) ==
  /\ cacheSys.phase = "run"
  /\ cacheSys.calls < MaxCacheCalls
  /\ LET cache == cacheSys.query_cache
         key == ExtractQuery(mode, q)
         hit == CacheHit(cache, key)
         result == Execute(q, cacheSys.data)
     IN /\ hit => outcome = "returned"
        /\ cacheSys' =
             [cacheSys EXCEPT
                !.calls = @ + 1,
                !.query_cache =
                  IF ~hit /\ outcome = "returned" /\ key # <<>>
                  THEN CacheStore(cache, key[1], result)
                  ELSE cache,
                !.last = [kind |-> "call", query |-> q, mode |-> mode,
                          key |-> key, before |-> cache,
                          data |-> cacheSys.data,
                          executed |-> ~hit,
                          outcome |-> outcome,
                          result |-> IF hit THEN cache[key[1]]
                                     ELSE IF outcome = "returned" THEN result
                                     ELSE [query |-> q, version |-> -1]]]
  /\ UNCHANGED <<appVars, msgVars, pagVars, sweep, batch, conc, retry, txn, rate>>

\* The underlying table changes between calls.
DataChange ==
  /\ cacheSys.phase = "run"
  /\ cacheSys.data < MaxDataVersion
  /\ cacheSys' = [cacheSys EXCEPT !.data = @ + 1]
  /\ UNCHANGED <<appVars, msgVars, pagVars, sweep, batch, conc, retry, txn, rate>>

CacheNext ==
  \/ \E q \in Queries, mode \in PassModes, outcome \in CallOutcomes :
        CachedCall(q, mode, outcome)
  \/ DataChange

CacheSpec == CacheInit /\ [][CacheNext]_vars

LastCall == cacheSys.last

\* C14: a call whose query string is stored returns the stored result
\* without executing the function and leaves the cache as it was, whatever
\* the data is now; a call whose query string is not stored executes the
\* function and, when the function returns, stores its result under the
\* string; a call that raises, or in which the wrapper finds no query,
\* stores nothing; no entry is ever removed or replaced.
C14_StoredResultIsKept ==
  (cacheSys.phase = "run" /\ LastCall.kind = "call") =>
    LET q == LastCall.query
        before == LastCall.before
        seen == LastCall.mode # "absent"
    IN /\ (seen /\ q \in DOMAIN before) =>
             /\ ~LastCall.executed
             /\ LastCall.outcome = "returned"
             /\ LastCall.result = before[q]
             /\ cacheSys.query_cache = before
       /\ ~(seen /\ q \in DOMAIN before) =>
             /\ LastCall.executed
             /\ (LastCall.outcome = "returned" /\ seen) =>
                  /\ LastCall.result = Execute(q, LastCall.data)
                  /\ DOMAIN cacheSys.query_cache = DOMAIN before \cup {q}
                  /\ cacheSys.query_cache[q] = LastCall.result
                  /\ \A x \in DOMAIN before : cacheSys.query_cache[x] = before[x]
             /\ ~(LastCall.outcome = "returned" /\ seen) =>
                  cacheSys.query_cache = before

\* A stored result is returned although the data has changed since.
C14_Witness ==
  /\ cacheSys.phase = "run"
  /\ LastCall.kind = "call"
  /\ ~LastCall.executed
  /\ LastCall.result.version < cacheSys.data

\* ------------------------------------------- batch processing (generators)

Ages == {20, 25, 30}
MaxBatchRows == 3
MaxBatchSize == 3
ConnectOutcomes == {"connected", "error", "not_connected"}
FetchOutcomes == {"rows", "error"}

\* Mutant: the limit age itself passes the filter.
OverAge_inclusive(user) == user.age >= 25

\* if user['age'] > 25
OverAge(user) == user.age > 25

\* cursor.fetchmany(batch_size) with `read` rows already consumed: the next
\* batch_size rows of the result set, fewer when fewer are left.
fetchmany(rows, read, size) == SubSeq(rows, read + 1, Min(read + size, Len(rows)))

BatchInit ==
  /\ users = Users
  /\ messages = <<>>
  /\ history = <<>>
  /\ notifications = <<>>
  /\ nextId = 1
  /\ now = 0
  /\ contentLog = <<>>
  /\ lastOp = "init"
  /\ table = <<>>
  /\ page_size = 1
  /\ pc = "idle"
  /\ offset = 0
  /\ pages = <<>>
  /\ fetches = <<>>
  /\ requests = 0
  /\ failed = FALSE
  /\ sweep = Idle
  /\ cacheSys = Idle
  /\ \E n \in 0..MaxBatchRows, ages \in [1..MaxBatchRows -> Ages], b \in 1..MaxBatchSize :
        batch = [phase |-> "created",
                 rows |-> [i \in 1..n |-> [user_id |-> i, age |-> ages[i]]],
                 batch_size |-> b, read |-> 0, batches |-> <<>>,
                 result |-> <<>>, failed |-> FALSE]
  /\ conc = Idle
  /\ retry = Idle
  /\ txn = Idle
  /\ rate = Idle
  /\ chat = Idle
  /\ view = Idle
  /\ race = Idle
  /\ removed = Idle

\* The first next() of the generator up to the SELECT: connect, test
\* is_connected(), open the cursor and execute the query. An Error is
\* printed and ends the generator, and so does a connection that is not
\* connected.
StreamOpen(outcome) ==
  /\ batch.phase = "created"
  /\ batch' = IF outcome = "connected"
              THEN [batch EXCEPT !.phase = "streaming"]
              ELSE [batch EXCEPT !.phase = "done", !.failed = TRUE]
  /\ UNCHANGED <<appVars, msgVars, pagVars, sweep, cacheSys, conc, retry, txn, rate>>

\* One turn of the while loop together with the body of batch_processing's
\* for loop on the yielded batch: an empty fetch breaks, a non-empty batch
\* is yielded and its rows over the age limit are appended to result.
StreamBatch(outcome) ==
  /\ batch.phase = "streaming"
  /\ LET b == fetchmany(batch.rows, batch.read, batch.batch_size)
     IN batch' =
          IF outcome = "error"
          THEN [batch EXCEPT !.phase = "done", !.failed = TRUE]
          ELSE IF b = <<>>
          THEN [batch EXCEPT !.phase = "done"]
          ELSE [batch EXCEPT !.read = @ + Len(b),
                             !.batches = Append(@, b),
                             !.result = @ \o SelectSeq(b, OverAge)]
  /\ UNCHANGED <<appVars, msgVars, pagVars, sweep, cacheSys, conc, retry, txn, rate>>

BatchNext ==
  \/ \E outcome \in ConnectOutcomes : StreamOpen(outcome)
  \/ \E outcome \in FetchOutcomes : StreamBatch(outcome)

BatchSpec == BatchInit /\ [][BatchNext]_vars

\* C15: the batches yielded so far are non-empty, all of size b except
\* possibly the last, and concatenate to the rows read so far in scan
\* order; result is exactly the rows with age > 25 among them, in scan
\* order and each once; when the stream ends without a database error the
\* batches concatenate to the whole table and result is the rows of the
\* table with age > 25, whatever b is.
C15_BatchesCoverTheTable ==
  batch.phase # "idle" =>
    LET b == batch.batch_size
        n == Len(batch.batches)
        rows == batch.rows
        older == {i \in 1..Len(rows) : rows[i].age > 25}
    IN /\ \A i \in 1..n : Len(batch.batches[i]) \in 1..b
       /\ \A i \in 1..(n - 1) : Len(batch.batches[i]) = b
       /\ Concat(batch.batches) = SubSeq(rows, 1, batch.read)
       /\ Len(batch.result) = Cardinality({i \in older : i <= batch.read})
       /\ \A j \in 1..Len(batch.result) :
            /\ batch.result[j].age > 25
            /\ batch.result[j] = rows[batch.result[j].user_id]
            /\ batch.result[j].user_id <= batch.read
            /\ \A k \in 1..(j - 1) : batch.result[k].user_id < batch.result[j].user_id
       /\ (batch.phase = "done" /\ ~batch.failed) =>
            /\ batch.read = Len(rows)
            /\ n = CeilDiv(Len(rows), b)
            /\ {batch.result[j].user_id : j \in 1..Len(batch.result)} = older

\* A complete run with a short last batch, a row of age 25 left out and a
\* row kept.
C15_Witness ==
  /\ batch.phase = "done"
  /\ ~batch.failed
  /\ Len(batch.batches) >= 2
  /\ Len(batch.batches[Len(batch.batches)]) < batch.batch_size
  /\ batch.result # <<>>
  /\ \E i \in 1..Len(batch.rows) : batch.rows[i].age = 25

\* --------------------------------------------- fetch_concurrently (asyncio)

ConcAges == {30, 50}
MaxConcRows == 2
Workers == {1, 2}
WorkerOutcomes == {"rows", "error"}

\* What the worker of coroutine i reads: sync_fetch_users for the first
\* argument of gather, sync_fetch_older_users for the second.
WorkerRead(i, rows) ==
  IF i = 1 THEN rows ELSE SelectSeq(rows, LAMBDA u : u.age > 40)

\* Mutant: the results are joined in the order the workers finished.
GatherResult_completion_order(task, finished) ==
  <<task[finished[1]].value, task[finished[2]].value>>

\* asyncio.gather returns the results in the order of its arguments.
GatherResult(task, finished) == <<task[1].value, task[2].value>>

ConcInit ==
  /\ users = Users
  /\ messages = <<>>
  /\ history = <<>>
  /\ notifications = <<>>
  /\ nextId = 1
  /\ now = 0
  /\ contentLog = <<>>
  /\ lastOp = "init"
  /\ table = <<>>
  /\ page_size = 1
  /\ pc = "idle"
  /\ offset = 0
  /\ pages = <<>>
  /\ fetches = <<>>
  /\ requests = 0
  /\ failed = FALSE
  /\ sweep = Idle
  /\ cacheSys = Idle
  /\ batch = Idle
  /\ \E n \in 0..MaxConcRows, ages \in [1..MaxConcRows -> ConcAges] :
        conc = [phase |-> "run",
                rows |-> [i \in 1..n |-> [id |-> i, age |-> ages[i]]],
                task |-> [i \in Workers |-> [pc |-> "pending", value |-> <<>>]],
                finished |-> <<>>,
                status |-> "awaiting",
                joined |-> <<>>]
  /\ retry = Idle
  /\ txn = Idle
  /\ rate = Idle
  /\ chat = Idle
  /\ view = Idle
  /\ race = Idle
  /\ removed = Idle

\* Coroutine i runs up to its await: it creates its ThreadPoolExecutor and
\* submits its sync function. The event loop starts the tasks of gather in
\* argument order.
TaskSubmit(i) ==
  /\ conc.phase = "run"
  /\ conc.task[i].pc = "pending"
  /\ i = 2 => conc.task[1].pc # "pending"
  /\ conc' = [conc EXCEPT !.task[i].pc = "submitted"]
  /\ UNCHANGED <<appVars, msgVars, pagVars, sweep, cacheSys, batch, retry, txn, rate>>

\* The worker thread of coroutine i runs its sync function to the end: the
\* read returns rows, or raises.
WorkerFinish(i, outcome) ==
  /\ conc.phase = "run"
  /\ conc.task[i].pc = "submitted"
  /\ conc' = [conc EXCEPT
               !.task[i] = IF outcome = "rows"
                           THEN [pc |-> "worker_done", value |-> WorkerRead(i, conc.rows)]
                           ELSE [pc |-> "worker_failed", value |-> <<>>],
               !.finished = Append(@, i)]
  /\ UNCHANGED <<appVars, msgVars, pagVars, sweep, cacheSys, batch, retry, txn, rate>>

\* The event loop resumes coroutine i after its future is done: it leaves
\* the with block and returns the rows, or the worker's exception
\* propagates out of it.
TaskResume(i) ==
  /\ conc.phase = "run"
  /\ conc.task[i].pc \in {"worker_done", "worker_failed"}
  /\ conc' = [conc EXCEPT !.task[i].pc =
                IF conc.task[i].pc = "worker_done" THEN "returned" ELSE "raised"]
  /\ UNCHANGED <<appVars, msgVars, pagVars, sweep, cacheSys, batch, retry, txn, rate>>

\* fetch_concurrently resumes from 'await asyncio.gather(...)' with both
\* results and returns them.
GatherReturn ==
  /\ conc.phase = "run"
  /\ conc.status = "awaiting"
  /\ \A i \in Workers : conc.task[i].pc = "returned"
  /\ conc' = [conc EXCEPT !.status = "returned",
                          !.joined = GatherResult(conc.task, conc.finished)]
  /\ UNCHANGED <<appVars, msgVars, pagVars, sweep, cacheSys, batch, retry, txn, rate>>

\* gather propagates the first exception of a coroutine to its awaiter at
\* once; fetch_concurrently ends with that exception and no result.
GatherRaise ==
  /\ conc.phase = "run"
  /\ conc.status = "awaiting"
  /\ \E i \in Workers : conc.task[i].pc = "raised"
  /\ conc' = [conc EXCEPT !.status = "raised"]
  /\ UNCHANGED <<appVars, msgVars, pagVars, sweep, cacheSys, batch, retry, txn, rate>>

ConcNext ==
  \/ \E i \in Workers : TaskSubmit(i)
  \/ \E i \in Workers, outcome \in WorkerOutcomes : WorkerFinish(i, outcome)
  \/ \E i \in Workers : TaskResume(i)
  \/ GatherReturn
  \/ GatherRaise

ConcSpec == ConcInit /\ [][ConcNext]_vars

\* C16: the joined result exists only once both worker reads have
\* completed, and then its first component is the all-users read and its
\* second the older-than-40 read, whichever worker finished first; until
\* then, and when a read failed, there is no joined result.
C16_JoinAfterBothInArgumentOrder ==
  conc.phase = "run" =>
    /\ conc.status = "returned" =>
         /\ Len(conc.finished) = 2
         /\ \A i \in Workers : conc.task[i].pc = "returned"
         /\ conc.joined = <<conc.rows, SelectSeq(conc.rows, LAMBDA u : u.age > 40)>>
    /\ conc.status # "returned" => conc.joined = <<>>

\* The older-users worker finished first and the two reads differ.
C16_Witness ==
  /\ conc.phase = "run"
  /\ conc.status = "returned"
  /\ conc.finished = <<2, 1>>
  /\ conc.joined[1] # conc.joined[2]

\* ------------------------------------------- retry_on_failure (decorators)

MaxRetries == 3
Delays == {1, 2}
Exceptions == {"OperationalError", "DatabaseError"}
\* An exception that is not derived from Exception.
Interrupts == {"KeyboardInterrupt"}
AttemptOutcomes == {"returned"} \cup Exceptions \cup Interrupts

\* Mutant: the wrapper gives up one attempt early.
IsLastAttempt_early(attempt, retries) == attempt + 1 >= retries

\* if attempt == retries: break
IsLastAttempt(attempt, retries) == attempt = retries

RetryInit ==
  /\ users = Users
  /\ messages = <<>>
  /\ history = <<>>
  /\ notifications = <<>>
  /\ nextId = 1
  /\ now = 0
  /\ contentLog = <<>>
  /\ lastOp = "init"
  /\ table = <<>>
  /\ page_size = 1
  /\ pc = "idle"
  /\ offset = 0
  /\ pages = <<>>
  /\ fetches = <<>>
  /\ requests = 0
  /\ failed = FALSE
  /\ sweep = Idle
  /\ cacheSys = Idle
  /\ batch = Idle
  /\ conc = Idle
  /\ \E r \in 0..MaxRetries, d \in Delays :
        retry = [phase |-> "run", retries |-> r, delay |-> d,
                 attempt |-> 0, at |-> "try", events |-> <<>>,
                 status |-> "running", last_exception |-> "none",
                 result |-> "none", raised |-> "none"]
  /\ txn = Idle
  /\ rate = Idle
  /\ chat = Idle
  /\ view = Idle
  /\ race = Idle
  /\ removed = Idle

\* One pass through the try of the for loop: func returns and the wrapper
\* returns its result, or func raises e, which is kept as last_exception;
\* after the last attempt the loop breaks and last_exception is raised. An
\* exception that 'except Exception' does not catch leaves the wrapper at
\* once.
Attempt(outcome) ==
  /\ retry.phase = "run"
  /\ retry.status = "running"
  /\ retry.at = "try"
  /\ retry.attempt < retry.retries + 1
  /\ LET ev == [kind |-> "attempt", n |-> retry.attempt, outcome |-> outcome]
     IN retry' =
          IF outcome = "returned"
          THEN [retry EXCEPT !.events = Append(@, ev),
                             !.status = "returned",
                             !.result = <<"result of attempt", retry.attempt>>]
          ELSE IF outcome \in Interrupts
          THEN [retry EXCEPT !.events = Append(@, ev),
                             !.status = "raised",
                             !.raised = outcome]
          ELSE IF IsLastAttempt(retry.attempt, retry.retries)
          THEN [retry EXCEPT !.events = Append(@, ev),
                             !.last_exception = outcome,
                             !.status = "raised",
                             !.raised = outcome]
          ELSE [retry EXCEPT !.events = Append(@, ev),
                             !.last_exception = outcome,
                             !.at = "sleep"]
  /\ UNCHANGED <<appVars, msgVars, pagVars, sweep, cacheSys, batch, conc, txn, rate>>

\* time.sleep(delay), then the next value of range(retries + 1).
Sleep ==
  /\ retry.phase = "run"
  /\ retry.status = "running"
  /\ retry.at = "sleep"
  /\ retry' = [retry EXCEPT
                 !.events = Append(@, [kind |-> "sleep", n |-> retry.attempt,
                                       outcome |-> <<"slept", retry.delay>>]),
                 !.attempt = @ + 1,
                 !.at = "try"]
  /\ UNCHANGED <<appVars, msgVars, pagVars, sweep, cacheSys, batch, conc, txn, rate>>

RetryNext ==
  \/ \E outcome \in AttemptOutcomes : Attempt(outcome)
  \/ Sleep

RetrySpec == RetryInit /\ [][RetryNext]_vars

Attempts == SelectSeq(retry.events, LAMBDA e : e.kind = "attempt")

\* C17: the function is attempted at least once and at most r + 1 times;
\* the wrapper returns the result of the first attempt that succeeds and
\* attempts nothing after it; it raises only after r + 1 failed attempts,
\* and then the exception of the last one; between two consecutive attempts
\* it sleeps d once, and it never sleeps after the final attempt. (An
\* exception outside the Exception hierarchy ends the call at the attempt
\* that raised it.)
C17_RetryBounds ==
  retry.phase = "run" =>
    LET ev == retry.events
        n == Len(Attempts)
    IN /\ n <= retry.retries + 1
       /\ \A i \in 1..Len(ev) :
            IF i % 2 = 1
            THEN ev[i].kind = "attempt" /\ ev[i].n = (i - 1) \div 2
            ELSE ev[i].kind = "sleep" /\ ev[i].outcome = <<"slept", retry.delay>>
       /\ \A i \in 1..(Len(ev) - 1) : ev[i].outcome # "returned"
       /\ retry.status # "running" =>
            /\ n >= 1
            /\ ev[Len(ev)].kind = "attempt"
       /\ retry.status = "returned" =>
            /\ ev[Len(ev)].outcome = "returned"
            /\ retry.result = <<"result of attempt", n - 1>>
            /\ retry.raised = "none"
       /\ \A i \in 1..(Len(ev) - 1) : ev[i].outcome \notin Interrupts
       /\ retry.status = "raised" =>
            /\ retry.raised = Attempts[n].outcome
            /\ retry.raised \in Exceptions =>
                 /\ n = retry.retries + 1
                 /\ \A i \in 1..n : Attempts[i].outcome \in Exceptions
                 /\ retry.raised = retry.last_exception
            /\ retry.result = "none"

\* All r + 1 attempts failed, the last with another exception than the
\* first.
C17_Witness ==
  /\ retry.phase = "run"
  /\ retry.status = "raised"
  /\ retry.retries >= 1
  /\ retry.raised \in Exceptions
  /\ Attempts[1].outcome # retry.raised

\* ------------------------- with_db_connection over transactional (decorators)

MaxTxnCalls == 2
Emails == {"new1@example.com", "new2@example.com"}
ConnectResults == {"connected", "OperationalError"}
\* What the wrapped function does: it returns, raises an exception derived
\* from Exception, or raises one that is not (KeyboardInterrupt, SystemExit).
FuncOutcomes == {"returned", "IntegrityError", "KeyboardInterrupt"}
StatementOutcomes == {"done", "OperationalError"}

IsException(e) == e \in {"IntegrityError", "OperationalError"}

\* Mutant: the wrapper commits whatever the function did.
AfterFunc_always_commit(outcome) == "commit"

\* transactional.wrapper after func: conn.commit() when it returned, the
\* except Exception branch when it raised one, and straight out of the
\* wrapper (into the finally of with_db_connection) otherwise.
AfterFunc(outcome) ==
  IF outcome = "returned" THEN "commit"
  ELSE IF IsException(outcome) THEN "rollback"
  ELSE "close"

\* Mutant: the connection is closed only when nothing was raised.
ClosesConnection_on_success(exc) == exc = "none"

\* with_db_connection closes in a finally block.
ClosesConnection(exc) == TRUE

TxnInit ==
  /\ users = Users
  /\ messages = <<>>
  /\ history = <<>>
  /\ notifications = <<>>
  /\ nextId = 1
  /\ now = 0
  /\ contentLog = <<>>
  /\ lastOp = "init"
  /\ table = <<>>
  /\ page_size = 1
  /\ pc = "idle"
  /\ offset = 0
  /\ pages = <<>>
  /\ fetches = <<>>
  /\ requests = 0
  /\ failed = FALSE
  /\ sweep = Idle
  /\ cacheSys = Idle
  /\ batch = Idle
  /\ conc = Idle
  /\ retry = Idle
  /\ \E e \in Emails :
        txn = [phase |-> "run", calls |-> 1, at |-> "connect", new_email |-> e,
               events |-> <<>>, email |-> "old@example.com",
               before |-> "old@example.com", pending |-> "none",
               func |-> "none", exc |-> "none", outcome |-> "none"]
  /\ rate = Idle
  /\ chat = Idle
  /\ view = Idle
  /\ race = Idle
  /\ removed = Idle

\* conn = sqlite3.connect('users.db'), outside the try: when it raises, the
\* call ends with that exception and there is no connection.
Connect(result) ==
  /\ txn.phase = "run"
  /\ txn.at = "connect"
  /\ txn' = IF result = "connected"
            THEN [txn EXCEPT !.at = "func", !.events = Append(@, "open")]
            ELSE [txn EXCEPT !.at = "ended", !.exc = result, !.outcome = "raised"]
  /\ UNCHANGED <<appVars, msgVars, pagVars, sweep, cacheSys, batch, conc, retry, rate>>

\* func(conn, ...): update_user_email executes its UPDATE on the connection
\* it was given, then returns or raises.
CallFunc(outcome) ==
  /\ txn.phase = "run"
  /\ txn.at = "func"
  /\ txn' = [txn EXCEPT !.at = AfterFunc(outcome),
                        !.events = Append(@, "call"),
                        !.pending = txn.new_email,
                        !.func = outcome,
                        !.exc = IF outcome = "returned" THEN "none" ELSE outcome]
  /\ UNCHANGED <<appVars, msgVars, pagVars, sweep, cacheSys, batch, conc, retry, rate>>

\* conn.commit(), inside the try: when it raises, the except branch runs.
Commit(result) ==
  /\ txn.phase = "run"
  /\ txn.at = "commit"
  /\ txn' = IF result = "done"
            THEN [txn EXCEPT !.at = "close", !.events = Append(@, "commit"),
                             !.email = txn.pending, !.pending = "none"]
            ELSE [txn EXCEPT !.at = "rollback", !.events = Append(@, "commit_failed"),
                             !.exc = result]
  /\ UNCHANGED <<appVars, msgVars, pagVars, sweep, cacheSys, batch, conc, retry, rate>>

\* conn.rollback() then raise e; when rollback itself raises, that
\* exception leaves the wrapper instead.
Rollback(result) ==
  /\ txn.phase = "run"
  /\ txn.at = "rollback"
  /\ txn' = IF result = "done"
            THEN [txn EXCEPT !.at = "close", !.events = Append(@, "rollback"),
                             !.pending = "none"]
            ELSE [txn EXCEPT !.at = "close", !.events = Append(@, "rollback_failed"),
                             !.exc = "rollback:" \o result]
  /\ UNCHANGED <<appVars, msgVars, pagVars, sweep, cacheSys, batch, conc, retry, rate>>

\* The finally of with_db_connection: conn.close() drops what was not
\* committed; then the result is returned or the exception goes on.
Close ==
  /\ txn.phase = "run"
  /\ txn.at = "close"
  /\ txn' = [txn EXCEPT
               !.at = "ended",
               !.events = IF ClosesConnection(txn.exc) THEN Append(@, "close") ELSE @,
               !.pending = "none",
               !.outcome = IF txn.exc = "none" THEN "returned" ELSE "raised"]
  /\ UNCHANGED <<appVars, msgVars, pagVars, sweep, cacheSys, batch, conc, retry, rate>>

\* The next call of the wrapped function.
NextCall(e) ==
  /\ txn.phase = "run"
  /\ txn.at = "ended"
  /\ txn.calls < MaxTxnCalls
  /\ txn' = [txn EXCEPT !.calls = @ + 1, !.at = "connect", !.new_email = e,
                        !.events = <<>>, !.before = txn.email,
                        !.func = "none", !.exc = "none", !.outcome = "none"]
  /\ UNCHANGED <<appVars, msgVars, pagVars, sweep, cacheSys, batch, conc, retry, rate>>

TxnNext ==
  \/ \E result \in ConnectResults : Connect(result)
  \/ \E outcome \in FuncOutcomes : CallFunc(outcome)
  \/ \E result \in StatementOutcomes : Commit(result)
  \/ \E result \in StatementOutcomes : Rollback(result)
  \/ Close
  \/ \E e \in Emails : NextCall(e)

TxnSpec == TxnInit /\ [][TxnNext]_vars

Count(ev, x) == Cardinality({i \in 1..Len(ev) : ev[i] = x})
Position(ev, x) == CHOOSE i \in 1..Len(ev) : ev[i] = x
CallEnded == txn.phase = "run" /\ txn.at = "ended" /\ txn.func # "none"

\* C18 as stated: a call ends with exactly one of commit and rollback,
\* commit exactly when the function returned (the wrapper returns), rollback
\* exactly when it raised (the wrapper raises that exception).
C18_CommitIffReturned ==
  CallEnded =>
    /\ Count(txn.events, "commit") + Count(txn.events, "rollback") = 1
    /\ Count(txn.events, "commit") = 1 <=> txn.func = "returned"
    /\ Count(txn.events, "rollback") = 1 <=> txn.func # "returned"
    /\ txn.func = "returned" => txn.outcome = "returned"
    /\ txn.func # "returned" => (txn.outcome = "raised" /\ txn.exc = txn.func)

\* C18 (amended): no call both commits and rolls back. The transaction is
\* committed exactly when the function returned and conn.commit() did not
\* raise, and exactly then the wrapper returns and the update is stored.
\* conn.rollback() is called exactly when the function raised an exception
\* derived from Exception or conn.commit() raised; when the rollback
\* completes the wrapper raises that same exception, when it raises, its
\* own. An exception of the function that is not derived from Exception
\* leaves the wrapper with neither commit nor rollback. In every case but
\* the commit the stored data is as before the call.
C18_CommitXorRollback ==
  CallEnded =>
    LET ev == txn.events
        committed == Count(ev, "commit") = 1
        commitFailed == Count(ev, "commit_failed") = 1
        rolledBack == Count(ev, "rollback") = 1
        rollbackFailed == Count(ev, "rollback_failed") = 1
    IN /\ Count(ev, "commit") + Count(ev, "commit_failed") <= 1
       /\ Count(ev, "rollback") + Count(ev, "rollback_failed") <= 1
       /\ ~(committed /\ (rolledBack \/ rollbackFailed))
       /\ (committed \/ commitFailed) <=> txn.func = "returned"
       /\ committed <=> txn.outcome = "returned"
       /\ committed <=> (txn.email = txn.new_email /\ txn.exc = "none")
       /\ ~committed => (txn.email = txn.before /\ txn.outcome = "raised")
       /\ (rolledBack \/ rollbackFailed) <=> (IsException(txn.func) \/ commitFailed)
       /\ (rolledBack /\ ~commitFailed) => txn.exc = txn.func
       /\ (rolledBack /\ commitFailed) => txn.exc = "OperationalError"
       /\ rollbackFailed => txn.exc = "rollback:OperationalError"
       /\ txn.func = "KeyboardInterrupt" =>
            (~committed /\ ~rolledBack /\ ~rollbackFailed /\ txn.exc = txn.func)
       /\ txn.pending = "none"

\* The function returned, the commit raised, and the call was rolled back.
C18_Witness ==
  /\ CallEnded
  /\ txn.func = "returned"
  /\ Count(txn.events, "commit_failed") = 1
  /\ Count(txn.events, "rollback") = 1
  /\ txn.outcome = "raised"

\* C19: a call that got its connection opened exactly one, passed it to
\* the function, and closed it exactly once as its last step, whether the
\* function returned or raised (the exception still leaves the call); the
\* close comes after the commit or rollback; while the call runs the
\* connection is open and not yet closed. A call whose connect raised has
\* no connection: the function is not called and nothing is closed.
C19_OneConnectionClosedLast ==
  txn.phase = "run" =>
    LET ev == txn.events
    IN /\ Count(ev, "open") <= 1
       /\ Count(ev, "close") <= 1
       /\ (ev # <<>>) => ev[1] = "open"
       /\ \A i \in 1..Len(ev) : ev[i] = "call" => i = 2
       /\ \A i \in 1..Len(ev) : ev[i] = "close" => (i = Len(ev) /\ txn.at = "ended")
       /\ (txn.at = "ended" /\ Count(ev, "open") = 1) =>
            /\ Count(ev, "call") = 1
            /\ ev[Len(ev)] = "close"
            /\ (txn.func # "returned" => (txn.outcome = "raised" /\ txn.exc # "none"))
       /\ (txn.at = "ended" /\ Count(ev, "open") = 0) =>
            (ev = <<>> /\ txn.outcome = "raised" /\ txn.func = "none")

\* The function raised, the call was rolled back, and the close came after
\* the rollback.
C19_Witness ==
  /\ txn.phase = "run"
  /\ txn.at = "ended"
  /\ txn.func = "IntegrityError"
  /\ txn.outcome = "raised"
  /\ Count(txn.events, "rollback") = 1
  /\ Position(txn.events, "rollback") < Position(txn.events, "close")

\* --------------------------- OffensiveLanguageMiddleware (rate limiting)

limit == 5
window_seconds == 60
MaxClock == 90
MaxPosts == 7
Ticks == {30}
Methods == {"POST", "GET"}
Paths == {"/api/messages/", "/api/users/"}
Addrs == {"10.0.0.1", "10.0.0.2"}
\* X-Forwarded-For split at the commas; <<>> when the header is absent.
ForwardedFor == {<<>>, <<"10.0.0.2", "10.0.0.1">>}

\* "/messages" in request.path
OnMessagesPath(path) == path = "/api/messages/"

\* The first address of X-Forwarded-For when the header is there, else
\* REMOTE_ADDR.
get_client_ip(xff, remote) == IF xff # <<>> THEN xff[1] ELSE remote

\* [ts for ts in log if now - ts < timedelta(seconds=window_seconds)]
Prune(log, t) == SelectSeq(log, LAMBDA ts : t - ts < window_seconds)

\* Mutant: one request more than the limit passes.
OverLimit_strict(log) == Len(log) > limit

\* if len(self.ip_message_log[ip]) >= self.limit
OverLimit(log) == Len(log) >= limit

RateInit ==
  /\ users = Users
  /\ messages = <<>>
  /\ history = <<>>
  /\ notifications = <<>>
  /\ nextId = 1
  /\ now = 0
  /\ contentLog = <<>>
  /\ lastOp = "init"
  /\ table = <<>>
  /\ page_size = 1
  /\ pc = "idle"
  /\ offset = 0
  /\ pages = <<>>
  /\ fetches = <<>>
  /\ requests = 0
  /\ failed = FALSE
  /\ sweep = Idle
  /\ cacheSys = Idle
  /\ batch = Idle
  /\ conc = Idle
  /\ retry = Idle
  /\ txn = Idle
  /\ rate = [phase |-> "run", clock |-> 0, posts |-> 0,
             ip_message_log |-> [ip \in Addrs |-> <<>>],
             forwarded |-> [ip \in Addrs |-> <<>>],
             last |-> [kind |-> "none"]]
  /\ chat = Idle
  /\ view = Idle
  /\ race = Idle
  /\ removed = Idle

\* __call__ for one request, requests being handled one at a time.
HandleRequest(method, path, xff, remote) ==
  /\ rate.phase = "run"
  /\ LET counted == method = "POST" /\ OnMessagesPath(path)
         ip == get_client_ip(xff, remote)
         t == rate.clock
         pruned == Prune(rate.ip_message_log[ip], t)
         rejected == counted /\ OverLimit(pruned)
         recent == Cardinality({i \in 1..Len(rate.forwarded[ip]) :
                                  t - rate.forwarded[ip][i] < window_seconds})
     IN /\ counted => rate.posts < MaxPosts
        /\ rate' =
             [rate EXCEPT
                !.posts = IF counted THEN @ + 1 ELSE @,
                !.ip_message_log =
                   IF ~counted THEN @
                   ELSE IF rejected THEN [@ EXCEPT ![ip] = pruned]
                   ELSE [@ EXCEPT ![ip] = Append(pruned, t)],
                !.forwarded =
                   IF counted /\ ~rejected THEN [@ EXCEPT ![ip] = Append(@, t)] ELSE @,
                !.last = [kind |-> "request", ip |-> ip, counted |-> counted,
                          status |-> IF rejected THEN 429 ELSE 200,
                          passed |-> ~rejected,
                          recent |-> recent,
                          logBefore |-> rate.ip_message_log,
                          forwardedBefore |-> rate.forwarded]]
  /\ UNCHANGED <<appVars, msgVars, pagVars, sweep, cacheSys, batch, conc, retry, txn>>

\* Time passes between requests (datetime.now() read by the next one).
Tick(d) ==
  /\ rate.phase = "run"
  /\ rate.clock + d <= MaxClock
  /\ rate' = [rate EXCEPT !.clock = @ + d]
  /\ UNCHANGED <<appVars, msgVars, pagVars, sweep, cacheSys, batch, conc, retry, txn>>

RateNext ==
  \/ \E method \in Methods, path \in Paths, xff \in ForwardedFor, remote \in Addrs :
        HandleRequest(method, path, xff, remote)
  \/ \E d \in Ticks : Tick(d)

RateSpec == RateInit /\ [][RateNext]_vars

LastRequest == rate.last

\* C20: for each client IP, any window of 60 seconds (a request exactly 60
\* seconds after another is outside its window) holds at most 5 forwarded
\* POST requests to a /messages path; such a POST is answered 429 exactly
\* when 5 forwarded ones of its IP lie less than 60 seconds back, and is
\* then neither forwarded nor counted; every other request is forwarded
\* and leaves all counts as they were; a request changes nothing for any
\* other IP.
C20_AtMostLimitPerWindow ==
  rate.phase = "run" =>
    /\ \A ip \in Addrs :
         LET f == rate.forwarded[ip]
         IN \A i \in 1..Len(f) :
              Cardinality({j \in 1..Len(f) :
                             f[i] <= f[j] /\ f[j] < f[i] + window_seconds}) <= limit
    /\ LastRequest.kind = "request" =>
         LET ip == LastRequest.ip
         IN /\ \A other \in Addrs \ {ip} :
                 /\ rate.ip_message_log[other] = LastRequest.logBefore[other]
                 /\ rate.forwarded[other] = LastRequest.forwardedBefore[other]
            /\ LastRequest.counted =>
                 /\ LastRequest.status = 429 <=> LastRequest.recent >= limit
                 /\ LastRequest.status = 429 =>
                      /\ ~LastRequest.passed
                      /\ rate.forwarded[ip] = LastRequest.forwardedBefore[ip]
                      /\ Len(rate.ip_message_log[ip]) = limit
                 /\ LastRequest.status # 429 =>
                      /\ LastRequest.passed
                      /\ Len(rate.forwarded[ip]) = Len(LastRequest.forwardedBefore[ip]) + 1
                      /\ Len(rate.ip_message_log[ip]) = LastRequest.recent + 1
            /\ ~LastRequest.counted =>
                 /\ LastRequest.passed
                 /\ LastRequest.status = 200
                 /\ rate.ip_message_log = LastRequest.logBefore
                 /\ rate.forwarded = LastRequest.forwardedBefore

\* A sixth POST was answered 429 inside the window and another is forwarded
\* exactly 60 seconds after the first five.
C20_Witness ==
  /\ rate.phase = "run"
  /\ LastRequest.kind = "request"
  /\ LastRequest.counted
  /\ LastRequest.passed
  /\ Len(rate.forwarded[LastRequest.ip]) = limit + 1
  /\ rate.forwarded[LastRequest.ip][1] + window_seconds = rate.clock
  /\ rate.posts = limit + 2
  /\ \A other \in Addrs \ {LastRequest.ip} : rate.forwarded[other] = <<>>

\* ------------------------------------------ messaging_app: the chats API

ChatUsers == {"u1", "u2", "u3"}
\* A well-formed UUID that is no user's id.
UnknownId == "u9"
MaxParticipantIds == 2
MaxConversations == 1
MaxChatMessages == 1
Bodies == {"hello", "edited"}

RECURSIVE SeqsUpTo(_, _)
SeqsUpTo(S, n) ==
  IF n = 0 THEN {<<>>}
  ELSE LET shorter == SeqsUpTo(S, n - 1)
       IN shorter \cup {Append(q, x) : q \in {r \in shorter : Len(r) = n - 1}, x \in S}

IdsOf(q) == {q[i] : i \in 1..Len(q)}

\* validate_participants: the list is not empty, and the number of users
\* whose id is in the list equals the length of the list.
validate_participants(value) ==
  /\ ~(Len(value) < 1)
  /\ Cardinality(IdsOf(value) \cap ChatUsers) = Len(value)

\* ConversationCreateSerializer.create: the creator's id is appended and
\* the participants are the users whose id is in the list.
CreatedParticipants(value, creator) == IdsOf(Append(value, creator)) \cap ChatUsers

\* MessageViewSet.get_queryset: the messages of the conversations in which
\* the requester is a participant.
VisibleMessages(c, requester) ==
  {m \in DOMAIN c.messages : requester \in c.conversations[c.messages[m].conversation]}

ChatInit ==
  /\ users = Users
  /\ messages = <<>>
  /\ history = <<>>
  /\ notifications = <<>>
  /\ nextId = 1
  /\ now = 0
  /\ contentLog = <<>>
  /\ lastOp = "init"
  /\ table = <<>>
  /\ page_size = 1
  /\ pc = "idle"
  /\ offset = 0
  /\ pages = <<>>
  /\ fetches = <<>>
  /\ requests = 0
  /\ failed = FALSE
  /\ sweep = Idle
  /\ cacheSys = Idle
  /\ batch = Idle
  /\ conc = Idle
  /\ retry = Idle
  /\ txn = Idle
  /\ rate = Idle
  /\ view = Idle
  /\ race = Idle
  /\ removed = Idle
  /\ chat = [phase |-> "run", conversations |-> <<>>, messages |-> <<>>,
             last |-> [op |-> "none"]]

\* POST /conversations/ by an authenticated user.
CreateConversation(creator, value) ==
  /\ chat.phase = "run"
  /\ Len(chat.conversations) < MaxConversations
  /\ chat' =
       IF validate_participants(value)
       THEN [chat EXCEPT
               !.conversations = Append(@, CreatedParticipants(value, creator)),
               !.last = [op |-> "create_conversation", requester |-> creator,
                         value |-> <<>>, status |-> 201, before |-> chat.messages]]
       ELSE [chat EXCEPT
               !.last = [op |-> "create_conversation", requester |-> creator,
                         value |-> <<>>, status |-> 400, before |-> chat.messages]]
  /\ UNCHANGED <<msgVars, pagVars, extVars, view, race, removed>>

\* MessageViewSet.create: 403 unless the requester is a participant of the
\* conversation; the sender is the requester.
SendMessage(requester, cid, body) ==
  /\ chat.phase = "run"
  /\ cid \in DOMAIN chat.conversations
  /\ Len(chat.messages) < MaxChatMessages
  /\ chat' =
       IF requester \in chat.conversations[cid]
       THEN [chat EXCEPT
               !.messages = Append(@, [sender |-> requester, conversation |-> cid,
                                       message_body |-> body, deleted |-> FALSE]),
               !.last = [op |-> "send", requester |-> requester, value |-> <<cid>>,
                         status |-> 201, before |-> chat.messages]]
       ELSE [chat EXCEPT
               !.last = [op |-> "send", requester |-> requester, value |-> <<cid>>,
                         status |-> 403, before |-> chat.messages]]
  /\ UNCHANGED <<msgVars, pagVars, extVars, view, race, removed>>

\* Mutant: every participant may change the message.
MayChange_participant(c, requester, m) == TRUE

\* message.sender.user_id != request.user.user_id gives 403
MayChange(c, requester, m) == c.messages[m].sender = requester

\* MessageViewSet.update and destroy: get_object() answers 404 for a
\* message outside the requester's queryset, then the sender test, then the
\* inherited update (new body) or destroy.
ChangeMessage(op, requester, m, body) ==
  /\ chat.phase = "run"
  /\ m \in DOMAIN chat.messages
  /\ ~chat.messages[m].deleted
  /\ op \in {"update", "destroy"}
  /\ LET found == m \in VisibleMessages(chat, requester)
         status == IF ~found THEN 404
                   ELSE IF ~MayChange(chat, requester, m) THEN 403
                   ELSE IF op = "update" THEN 200 ELSE 204
     IN chat' =
          [chat EXCEPT
             !.messages = IF status = 200 THEN [@ EXCEPT ![m].message_body = body]
                          ELSE IF status = 204 THEN [@ EXCEPT ![m].deleted = TRUE]
                          ELSE @,
             !.last = [op |-> op, requester |-> requester, value |-> <<m>>,
                       status |-> status, before |-> chat.messages]]
  /\ UNCHANGED <<msgVars, pagVars, extVars, view, race, removed>>

ChatNext ==
  \/ \E creator \in ChatUsers,
        value \in SeqsUpTo(ChatUsers \cup {UnknownId}, MaxParticipantIds) :
        CreateConversation(creator, value)
  \/ \E requester \in ChatUsers, cid \in 1..MaxConversations, body \in {"hello"} :
        SendMessage(requester, cid, body)
  \/ \E op \in {"update", "destroy"}, requester \in ChatUsers,
        m \in 1..MaxChatMessages, body \in Bodies :
        ChangeMessage(op, requester, m, body)

ChatSpec == ChatInit /\ [][ChatNext]_vars

\* C21: every conversation created through the serializer has at least 2
\* distinct participants, and a rejected request creates none.
C21_AtLeastTwoParticipants ==
  chat.phase = "run" =>
    \A cid \in DOMAIN chat.conversations :
      Cardinality(chat.conversations[cid]) >= 2

LastChange == chat.last

\* C22 as stated: an update or destroy by anyone but the sender is answered
\* 403 and leaves the message as it was.
C22_OthersGet403 ==
  (chat.phase = "run" /\ LastChange.op \in {"update", "destroy"}) =>
    LET m == LastChange.value[1]
    IN LastChange.requester # LastChange.before[m].sender =>
         (LastChange.status = 403 /\ chat.messages = LastChange.before)

\* C22 (amended): an update or destroy changes or deletes the message only
\* when the requester is its sender; another participant of the
\* conversation is answered 403, a requester who is not a participant 404
\* (the message is not in their queryset), and in both cases every message
\* is as before.
C22_OnlySenderChanges ==
  (chat.phase = "run" /\ LastChange.op \in {"update", "destroy"}) =>
    LET m == LastChange.value[1]
        old == LastChange.before[m]
        participant == LastChange.requester \in chat.conversations[old.conversation]
    IN /\ chat.messages # LastChange.before => LastChange.requester = old.sender
       /\ LastChange.requester # old.sender =>
            /\ chat.messages = LastChange.before
            /\ participant => LastChange.status = 403
            /\ ~participant => LastChange.status = 404
       /\ LastChange.status \in {200, 204} => LastChange.requester = old.sender

\* Another participant of the conversation tried to delete the message and
\* got 403.
C22_Witness ==
  /\ chat.phase = "run"
  /\ LastChange.op = "destroy"
  /\ LastChange.status = 403
  /\ LastChange.requester \in chat.conversations[chat.messages[LastChange.value[1]].conversation]
  /\ ~chat.messages[LastChange.value[1]].deleted

\* ------------------------------------------------- reply_to_message (view)

Anonymous == "anonymous"
HttpMethods == {"POST", "GET"}
\* request.POST.get('content'): "" also stands for a missing field.
PostedContents == {"", "v1"}

\* Mutant: only the parent's sender may reply.
IsParticipant_sender_only(requester, parent) == requester = parent.sender

\* not (user != parent.sender and user != parent.receiver)
IsParticipant(requester, parent) ==
  requester = parent.sender \/ requester = parent.receiver

\* The response of reply_to_message, in the order of its tests; "create"
\* stands for the path that reaches Message.objects.create.
ReplyOutcome(requester, method, message_id, content) ==
  IF requester \notin users THEN [status |-> 302, to |-> "login"]
  ELSE IF method # "POST" THEN [status |-> 302, to |-> "conversation_list"]
  ELSE IF message_id \notin DOMAIN messages THEN [status |-> 404, to |-> "none"]
  ELSE IF ~IsParticipant(requester, messages[message_id]) THEN [status |-> 403, to |-> "none"]
  ELSE IF content = "" THEN [status |-> 302, to |-> "message_thread"]
  ELSE [status |-> 302, to |-> "create"]

\* One request to reply_to_message.
ReplyToMessage(requester, method, message_id, content) ==
  LET out == ReplyOutcome(requester, method, message_id, content)
  IN /\ IF out.to = "create"
        THEN /\ nextId <= MaxMessages
             /\ LET parent == messages[message_id]
                    receiver == IF requester = parent.sender
                                THEN parent.receiver ELSE parent.sender
                IN save(NewMessage(requester, receiver, content, message_id))
             /\ contentLog' = [id \in DOMAIN contentLog \cup {nextId} |->
                                 IF id = nextId THEN <<>> ELSE contentLog[id]]
        ELSE UNCHANGED <<messages, history, notifications, nextId, now, contentLog>>
     /\ view' = [phase |-> "answered", requester |-> requester, method |-> method,
                 message_id |-> message_id, content |-> content,
                 status |-> out.status,
                 to |-> IF out.to = "create" THEN "message_thread" ELSE out.to,
                 before |-> DB, nextId |-> nextId]
     /\ lastOp' = "reply_to_message"
     /\ UNCHANGED users
     /\ UNCHANGED <<pagVars, extVars, chat, race, removed>>

ViewNext ==
  \/ \E s \in ThreadUsers, r \in ThreadUsers, c \in CreateContents : CreateMessage(s, r, c)
  \/ \E requester \in Users \cup {Anonymous}, method \in HttpMethods,
        message_id \in 1..MaxMessages, content \in PostedContents :
        ReplyToMessage(requester, method, message_id, content)

ViewSpec == Init /\ [][ViewNext]_vars

\* The request asks for a reply that the view should create.
ShouldReply ==
  /\ view.method = "POST"
  /\ view.requester \in users
  /\ view.message_id \in DOMAIN view.before.messages
  /\ view.requester \in {view.before.messages[view.message_id].sender,
                         view.before.messages[view.message_id].receiver}
  /\ view.content # ""

\* C23: reply_to_message creates a reply exactly when the request is a POST
\* by a logged-in participant of an existing parent with non-empty content.
\* The reply has sender = requester, parent_message = the parent and
\* thread_level = parent's level + 1, and nothing else changes but its
\* notification. In every other case the three tables are as before: 403
\* for a non-participant, 404 for a missing parent, a redirect for empty
\* content, a request that is not a POST, or a requester not logged in.
C23_ReplyIffAllowed ==
  lastOp = "reply_to_message" =>
    /\ ShouldReply =>
         LET new == view.nextId
             parent == view.before.messages[view.message_id]
         IN /\ DOMAIN messages = DOMAIN view.before.messages \cup {new}
            /\ new \notin DOMAIN view.before.messages
            /\ \A id \in DOMAIN view.before.messages : messages[id] = view.before.messages[id]
            /\ messages[new].sender = view.requester
            /\ messages[new].parent_message = view.message_id
            /\ messages[new].thread_level = parent.thread_level + 1
            /\ messages[new].content = view.content
            /\ history = view.before.history
            /\ Len(notifications) <= Len(view.before.notifications) + 1
            /\ SubSeq(notifications, 1, Len(view.before.notifications)) = view.before.notifications
            /\ view.status = 302 /\ view.to = "message_thread"
    /\ ~ShouldReply =>
         /\ DB = view.before
         /\ nextId = view.nextId
         /\ view.requester \notin users => (view.status = 302 /\ view.to = "login")
         /\ (view.requester \in users /\ view.method # "POST") =>
              (view.status = 302 /\ view.to = "conversation_list")
         /\ (view.requester \in users /\ view.method = "POST") =>
              IF view.message_id \notin DOMAIN view.before.messages THEN view.status = 404
              ELSE IF view.requester \notin {view.before.messages[view.message_id].sender,
                                             view.before.messages[view.message_id].receiver}
                   THEN view.status = 403
              ELSE view.status = 302 /\ view.to = "message_thread"

\* The parent's receiver replied, and a non-participant exists.
C23_Witness ==
  /\ lastOp = "reply_to_message"
  /\ ShouldReply
  /\ view.requester = view.before.messages[view.message_id].receiver
  /\ view.requester # view.before.messages[view.message_id].sender
  /\ messages[view.nextId].thread_level = 1
  /\ Len(notifications) = Len(view.before.notifications) + 1

\* ------------------------- saves of in-memory copies, step by step (races)

MaxSaves == 2

\* The in-memory copies of the message, one per request editing it.
CopyIds == {"c1", "c2"}

\* Contents of the edits: two concurrent edits may differ from the stored
\* content and from each other.
EditContents == Contents \cup {"v3"}

Unloaded == [pc |-> "unloaded"]

\* next_version = (last_history.version + 1) if last_history else 1
NextVersion(hist, id) ==
  IF LastVersion(hist, id) # None THEN LastVersion(hist, id) + 1 ELSE 1

\* Mutant: the pre-image is taken from the instance being saved.
PreImage_in_memory(msgs, inst) == inst.content

\* original = Message.objects.get(pk=instance.pk); original.content
PreImage(msgs, inst) == msgs[inst.pk].content

\* super().save() of an instance that has a pk: UPDATE of every field from
\* the instance; when no row has that pk the UPDATE matches nothing and
\* the row is inserted.
WriteStored(msgs, inst) ==
  [id \in DOMAIN msgs \cup {inst.pk} |-> IF id = inst.pk THEN inst ELSE msgs[id]]

RaceInit ==
  /\ users = Users
  /\ messages = <<>>
  /\ history = <<>>
  /\ notifications = <<>>
  /\ nextId = 1
  /\ now = 0
  /\ contentLog = <<>>
  /\ lastOp = "init"
  /\ table = <<>>
  /\ page_size = 1
  /\ pc = "idle"
  /\ offset = 0
  /\ pages = <<>>
  /\ fetches = <<>>
  /\ requests = 0
  /\ failed = FALSE
  /\ sweep = Idle
  /\ cacheSys = Idle
  /\ batch = Idle
  /\ conc = Idle
  /\ retry = Idle
  /\ txn = Idle
  /\ rate = Idle
  /\ chat = Idle
  /\ view = Idle
  /\ race = [phase |-> "run", copies |-> [k \in CopyIds |-> Unloaded],
             saves |-> 0, landed |-> <<>>, deleted |-> FALSE]
  /\ removed = Idle

\* The one message the copies are taken of.
RaceCreate ==
  /\ nextId = 1
  /\ CreateMessage("alice", "bob", "v1")

\* copy k = Message.objects.get(pk=id)
Load(k, id) ==
  /\ race.phase = "run"
  /\ race.copies[k].pc = "unloaded"
  /\ id \in DOMAIN messages
  /\ race' = [race EXCEPT !.copies[k] =
                [pc |-> "loaded", inst |-> messages[id],
                 base |-> messages[id].content, baseLanded |-> Len(race.landed),
                 new |-> messages[id].content,
                 pre |-> "", preLanded |-> 0, next_version |-> 0,
                 logged |-> <<>>, done |-> 0, error |-> "none"]]
  /\ UNCHANGED <<msgVars, pagVars, extVars, chat, view, removed>>

\* copy.content = c; copy.save() up to super().save(): the thread fields,
\* then the unguarded read of the stored row (models.py line 80), which
\* raises Message.DoesNotExist when the row is gone.
SaveTrack(k, c) ==
  /\ race.phase = "run"
  /\ race.copies[k].pc = "loaded"
  /\ race.saves < MaxSaves
  /\ LET inst == SetThreadFields([race.copies[k].inst EXCEPT !.content = c])
     IN IF inst.pk \notin DOMAIN messages
        THEN /\ race' = [race EXCEPT !.saves = @ + 1,
                                     !.copies[k].pc = "raised",
                                     !.copies[k].new = c,
                                     !.copies[k].inst = inst,
                                     !.copies[k].error = "DoesNotExist"]
             /\ UNCHANGED now
        ELSE LET tracked == TrackEdit(inst)
             IN /\ race' = [race EXCEPT !.saves = @ + 1,
                                        !.copies[k].pc = "pre_read",
                                        !.copies[k].new = c,
                                        !.copies[k].logged = <<>>,
                                        !.copies[k].inst = tracked]
                /\ now' = IF tracked.edited_at # inst.edited_at THEN now + 1 ELSE now
  /\ UNCHANGED <<users, messages, history, notifications, nextId, contentLog, lastOp>>
  /\ UNCHANGED <<pagVars, extVars, chat, view, removed>>

\* pre_save, log_message_edit: the read of the pre-image; DoesNotExist is
\* caught and the logging skipped.
SavePreRead(k) ==
  /\ race.phase = "run"
  /\ race.copies[k].pc = "pre_read"
  /\ LET cp == race.copies[k]
     IN race' =
          IF cp.inst.pk \notin DOMAIN messages
          THEN [race EXCEPT !.copies[k].pc = "write"]
          ELSE [race EXCEPT
                  !.copies[k].pre = PreImage(messages, cp.inst),
                  !.copies[k].preLanded = Len(race.landed),
                  !.copies[k].pc = IF PreImage(messages, cp.inst) # cp.inst.content
                                   THEN "read_version" ELSE "write"]
  /\ UNCHANGED <<msgVars, pagVars, extVars, chat, view, removed>>

\* log_message_edit: the read of the last version.
SaveReadVersion(k) ==
  /\ race.phase = "run"
  /\ race.copies[k].pc = "read_version"
  /\ race' = [race EXCEPT
                !.copies[k].next_version = NextVersion(history, race.copies[k].inst.pk),
                !.copies[k].pc = "insert"]
  /\ UNCHANGED <<msgVars, pagVars, extVars, chat, view, removed>>

\* log_message_edit: MessageHistory.objects.create; the insert fails on
\* its foreign key when the message row has gone meanwhile.
SaveInsertHistory(k) ==
  /\ race.phase = "run"
  /\ race.copies[k].pc = "insert"
  /\ LET cp == race.copies[k]
         row == [message |-> cp.inst.pk, old_content |-> cp.pre,
                 edited_by |-> cp.inst.sender, version |-> cp.next_version]
     IN IF cp.inst.pk \in DOMAIN messages
        THEN /\ history' = Append(history, row)
             /\ race' = [race EXCEPT !.copies[k].logged = <<row>>,
                                     !.copies[k].pc = "write"]
        ELSE /\ UNCHANGED history
             /\ race' = [race EXCEPT !.copies[k].pc = "raised",
                                     !.copies[k].error = "IntegrityError"]
  /\ UNCHANGED <<users, messages, notifications, nextId, now, contentLog, lastOp>>
  /\ UNCHANGED <<pagVars, extVars, chat, view, removed>>

\* super().save() and post_save: the row is written from the instance.
SaveWrite(k) ==
  /\ race.phase = "run"
  /\ race.copies[k].pc = "write"
  /\ LET cp == race.copies[k]
         created == cp.inst.pk \notin DOMAIN messages
     IN /\ messages' = WriteStored(messages, cp.inst)
        /\ notifications' = create_message_notification(cp.inst, created)
        /\ race' = [race EXCEPT !.copies[k].pc = "loaded",
                                !.copies[k].done = @ + 1,
                                !.landed = Append(@, k)]
  /\ lastOp' = "save"
  /\ UNCHANGED <<users, history, nextId, now, contentLog>>
  /\ UNCHANGED <<pagVars, extVars, chat, view, removed>>

\* Message.objects.filter(pk=id).delete() by another request.
DeleteRow(id) ==
  /\ race.phase = "run"
  /\ ~race.deleted
  /\ id \in DOMAIN messages
  /\ LET db == DeleteMessages(DB, {id})
     IN /\ messages' = db.messages
        /\ history' = db.history
        /\ notifications' = db.notifications
  /\ race' = [race EXCEPT !.deleted = TRUE]
  /\ lastOp' = "delete_message"
  /\ UNCHANGED <<users, nextId, now, contentLog>>
  /\ UNCHANGED <<pagVars, extVars, chat, view, removed>>

RaceNext ==
  \/ RaceCreate
  \/ \E k \in CopyIds, id \in 1..MaxMessages : Load(k, id)
  \/ \E k \in CopyIds, c \in EditContents : SaveTrack(k, c)
  \/ \E k \in CopyIds : SavePreRead(k)
  \/ \E k \in CopyIds : SaveReadVersion(k)
  \/ \E k \in CopyIds : SaveInsertHistory(k)
  \/ \E k \in CopyIds : SaveWrite(k)
  \/ \E id \in 1..MaxMessages : DeleteRow(id)

RaceSpec == RaceInit /\ [][RaceNext]_vars


Copy(k) == race.copies[k]

\* No save is under way.
Quiescent == \A k \in CopyIds : Copy(k).pc \in {"unloaded", "loaded", "raised"}

\* C24: a save with changed content of a message whose stored row no
\* longer exists completes without raising (and writes no history row).
C24_VanishedRowSaveCompletes ==
  race.phase = "run" =>
    \A k \in CopyIds :
      (Copy(k).pc # "unloaded" /\ Copy(k).new # Copy(k).base
         /\ Copy(k).inst.pk \notin DOMAIN messages)
        => Copy(k).error # "DoesNotExist"

\* Two edits prepared from the same stored content have both been saved,
\* once each, and nothing else has written or deleted the message.
BothLanded ==
  /\ race.phase = "run"
  /\ ~race.deleted
  /\ Len(race.landed) = 2
  /\ race.landed[1] # race.landed[2]
  /\ \A k \in {race.landed[1], race.landed[2]} :
       /\ Copy(k).pc = "loaded"
       /\ Copy(k).done = 1
       /\ Copy(k).baseLanded = 0
       /\ Copy(k).new # Copy(k).base

LastSave == Copy(race.landed[2])
OtherSave == Copy(race.landed[1])

\* C25 as stated: the stored content is that of the save landing last, and
\* that save appended a history row whose old_content is the content
\* written by the other save.
C25_LastLogsOther ==
  BothLanded =>
    /\ messages[1].content = LastSave.new
    /\ LastSave.logged # <<>>
    /\ LastSave.logged[1].old_content = OtherSave.new

\* C25 amended: without a deletion no save raises; the stored content is
\* that of the save landing last; the last save logs the content it read
\* as pre-image: the other save's content when the other write landed
\* before that read and differs from its own, the common original content
\* when the read came before the other write, and nothing when it read
\* the other save's content and that equals its own.
C25_LastWriteWins ==
  /\ (race.phase = "run" /\ ~race.deleted) =>
       \A k \in CopyIds : Copy(k).pc # "raised"
  /\ BothLanded =>
       /\ messages[1].content = LastSave.new
       /\ IF LastSave.preLanded = 0
          THEN /\ LastSave.logged # <<>>
               /\ LastSave.logged[1].old_content = LastSave.base
          ELSE IF LastSave.new = OtherSave.new
               THEN LastSave.logged = <<>>
               ELSE /\ LastSave.logged # <<>>
                    /\ LastSave.logged[1].old_content = OtherSave.new

C25_Witness ==
  /\ BothLanded
  /\ LastSave.preLanded = 1
  /\ LastSave.logged # <<>>
  /\ LastSave.logged[1].old_content = OtherSave.new
  /\ messages[1].content = LastSave.new

\* C26: under any interleaving of the steps of concurrent edits, the
\* history rows of a message carry the versions 1..n, each once.
C26_VersionsOneToN ==
  race.phase = "run" =>
    \A id \in 1..MaxMessages :
      LET h == HistoryOf(history, id)
      IN /\ \A i, j \in DOMAIN h : h[i].version = h[j].version => i = j
         /\ {h[i].version : i \in DOMAIN h} = 1..Len(h)

\* C27: whenever no save is under way, a stored message is flagged edited
\* exactly when it has a history row.
C27_EditedIffHistory ==
  (race.phase = "run" /\ Quiescent) =>
    \A id \in DOMAIN messages :
      messages[id].edited <=> HistoryOf(history, id) # <<>>

\* ------------------------------------------------- deletion of a message

\* Bound of the deletion exploration: threads of up to three messages.
MaxTreeMessages == 3

\* Message.objects.create(sender=s, receiver=r, content=c, parent_message=p),
\* p = None for a root, in a deletion exploration
TreeCreate(s, r, c, p) ==
  /\ s \in users /\ r \in users
  /\ p = None \/ p \in DOMAIN messages
  /\ nextId <= MaxTreeMessages
  /\ save(NewMessage(s, r, c, p))
  /\ contentLog' = [id \in DOMAIN contentLog \cup {nextId} |->
                      IF id = nextId THEN <<>> ELSE contentLog[id]]
  /\ lastOp' = IF p = None THEN "create" ELSE "reply"
  /\ UNCHANGED users
  /\ UNCHANGED <<pagVars, extVars, appVars>>

\* Message.objects.get(pk=id).delete(): the CASCADE keys, then post_delete.
DeleteMessage(id) ==
  /\ id \in DOMAIN messages
  /\ LET db == DeleteMessages(DB, {id})
     IN /\ messages' = db.messages
        /\ history' = db.history
        /\ notifications' = db.notifications
        /\ contentLog' = [m \in DOMAIN db.messages |-> contentLog[m]]
  /\ removed' = [phase |-> "deleted", id |-> id,
                  parents |-> [m \in DOMAIN messages |-> messages[m].parent_message],
                  logged |-> {history[i].message : i \in DOMAIN history},
                  notified |-> {notifications[i].message : i \in DOMAIN notifications}]
  /\ lastOp' = "delete_message"
  /\ UNCHANGED <<users, nextId, now>>
  /\ UNCHANGED <<pagVars, extVars, chat, view, race>>

TreeNext ==
  \/ \E c \in CreateContents : TreeCreate("alice", "bob", c, None)
  \/ \E s \in ThreadUsers, c \in CreateContents, p \in 1..MaxTreeMessages :
       TreeCreate(s, s, c, p)
  \/ \E id \in 1..MaxTreeMessages, c \in Contents : EditMessage(id, c)
  \/ \E id \in 1..MaxTreeMessages : DeleteMessage(id)

TreeSpec == Init /\ [][TreeNext]_vars

\* The messages below ids, ids included, parents giving each message's parent.
RECURSIVE SubtreeOf(_, _)
SubtreeOf(parents, ids) ==
  LET below == {m \in DOMAIN parents : parents[m] \in ids}
  IN IF below \subseteq ids THEN ids ELSE SubtreeOf(parents, ids \cup below)

\* C28: every parent_message, every history row and every notification
\* refers to an existing message, and the last deletion removed the
\* deleted message together with every message of the subtree below it.
C28_NoDanglingReference ==
  /\ \A id \in DOMAIN messages :
       messages[id].parent_message # None
         => messages[id].parent_message \in DOMAIN messages
  /\ \A i \in DOMAIN history : history[i].message \in DOMAIN messages
  /\ \A i \in DOMAIN notifications : notifications[i].message \in DOMAIN messages
  /\ (removed.phase = "deleted" /\ lastOp = "delete_message")
       => SubtreeOf(removed.parents, {removed.id}) \cap DOMAIN messages = {}

\* A message with a reply and an edited reply to that reply has been deleted.
C28_Witness ==
  /\ removed.phase = "deleted"
  /\ lastOp = "delete_message"
  /\ \E m \in removed.logged \cap removed.notified :
       /\ removed.parents[m] # None
       /\ removed.parents[removed.parents[m]] = removed.id
  /\ removed.id \notin DOMAIN messages

\* ------------------------------------------------ re-saving under a parent

\* Bound of the exploration: thread_level grows without limit on a cycle.
MaxLevel == 2

\* m = Message.objects.get(pk=id); m.parent_message = Message.objects.get(pk=p);
\* m.save()
Reparent(id, p) ==
  /\ id \in DOMAIN messages
  /\ p \in DOMAIN messages
  /\ messages[p].thread_level < MaxLevel
  /\ p # messages[id].parent_message
  /\ save([messages[id] EXCEPT !.parent_message = p])
  /\ lastOp' = "reparent"
  /\ UNCHANGED <<users, contentLog>>
  /\ UNCHANGED <<pagVars, extVars, appVars>>

ReparentNext ==
  \/ \E c \in CreateContents : TreeCreate("alice", "bob", c, None)
  \/ \E s \in ThreadUsers, c \in CreateContents, p \in 1..MaxTreeMessages :
       TreeCreate(s, s, c, p)
  \/ \E id \in 1..MaxTreeMessages, p \in 1..MaxTreeMessages : Reparent(id, p)

ReparentSpec == Init /\ [][ReparentNext]_vars

\* The message reached from id by n steps along parent_message, None once
\* the walk has left the top of the thread.
RECURSIVE Up(_, _, _)
Up(msgs, id, n) ==
  IF id = None \/ n = 0 THEN id ELSE Up(msgs, msgs[id].parent_message, n - 1)

\* get_thread_root of id returns: its walk up the parents reaches a message
\* without parent (a walk that has not left the thread after as many steps
\* as there are messages is on a cycle).
Terminates(msgs, id) == Up(msgs, id, Cardinality(DOMAIN msgs)) = None

\* C29: no sequence of saves produces a cycle of parent references;
\* get_thread_root terminates for every stored message.
C29_NoParentCycle ==
  \A id \in DOMAIN messages : Terminates(messages, id)

\* ------------------------------------- claims: lazy pagination, failures

\* The pages lazy_paginate(k) yields over rows when every fetch is answered.
ExpectedPages(rows, k) ==
  [i \in 1..CeilDiv(Len(rows), k) |-> LimitOffset(rows, k, (i - 1) * k)]

\* C30: once a fetch has failed (database error, or connection not
\* established) the generator has ended without raising; that fetch is the
\* last one and yielded nothing, the consumer holds exactly the pages
\* fetched before it, and what the consumer holds is what a run to the end
\* of a table made of those rows would have given.
C30_FailedFetchEndsSilently ==
  failed =>
    /\ pc = "done"
    /\ NoMoreData(fetches[Len(fetches)].page)
    /\ Len(pages) = Len(fetches) - 1
    /\ \A j \in 1..Len(pages) : pages[j] = fetches[j].page.rows /\ pages[j] # <<>>
    /\ pages = ExpectedPages(Concat(pages), page_size)

\* C30 witness: a fetch failed after one page or more, with rows of the
\* table still unread.
C30_Witness ==
  /\ failed
  /\ pc = "done"
  /\ Len(pages) >= 1
  /\ Len(Concat(pages)) < Len(table)

====
